---- MODULE Spec2Model ----
(***************************************************************************)
(* Blue Protocol resource calculator: the recipe Store, the Profile and    *)
(* the Focus engine of src/app.js (effectiveYield, calculateFocus,         *)
(* maxCraftable).                                                          *)
(*                                                                         *)
(* Numbers.  JavaScript numbers are modelled exactly: quantities, Focus    *)
(* costs and seconds are integers, yields and probabilities are rationals  *)
(* <<n, d>> with d > 0 in lowest terms.  null is the empty tuple.          *)
(***************************************************************************)
EXTENDS Integers, Sequences, FiniteSets, TLC

Null == << >>

\* no exception thrown
NoError == "none"

\* ------------------------------------------------------------------------
\* Rational arithmetic
\* ------------------------------------------------------------------------
Abs(x) == IF x < 0 THEN -x ELSE x

RECURSIVE GCD(_, _)
GCD(a, b) == IF b = 0 THEN a ELSE GCD(b, a % b)

\* n/d in lowest terms with a positive denominator (d # 0)
Rat(n, d) ==
    LET s == IF d < 0 THEN -1 ELSE 1
        g == GCD(Abs(n), Abs(d))
    IN  << (s * n) \div g, (s * d) \div g >>

FromInt(i) == << i, 1 >>
Zero == FromInt(0)
One == FromInt(1)

RAdd(a, b) == Rat(a[1] * b[2] + b[1] * a[2], a[2] * b[2])
RSub(a, b) == Rat(a[1] * b[2] - b[1] * a[2], a[2] * b[2])
RMul(a, b) == Rat(a[1] * b[1], a[2] * b[2])
RDiv(a, b) == Rat(a[1] * b[2], a[2] * b[1])
RLe(a, b) == a[1] * b[2] <= b[1] * a[2]
RLt(a, b) == a[1] * b[2] < b[1] * a[2]
RMax(a, b) == IF RLe(a, b) THEN b ELSE a
RMin(a, b) == IF RLe(a, b) THEN a ELSE b

\* Math.ceil(units / y) for an integer units >= 0 and a rational y > 0.
\* units is split as k*n + r so that no intermediate exceeds the result.
CeilDiv(units, y) ==
    LET n == y[1]
        d == y[2]
        k == units \div n
        r == units % n
    IN  k * d + ((r * d + n - 1) \div n)

\* ------------------------------------------------------------------------
\* Utilities (src/app.js:8-10)
\* ------------------------------------------------------------------------
\* A JSON number field of a raw record is null or <<v>> (integer fields) or a
\* rational <<n, d>> (yield and probability fields).

\* nz(x, d): Number(null) is 0, a finite number is kept
nz(x, d) == IF x = Null THEN 0 ELSE x[1]

clamp(n, lo, hi) == RMin(hi, RMax(lo, n))

\* String(r.Name || '').trim() on the names of the model
Trim(s) == IF s = " " THEN "" ELSE s

\* ------------------------------------------------------------------------
\* Recipe Store (src/app.js:349-466)
\* ------------------------------------------------------------------------
RECURSIVE SumP(_)
SumP(pairs) ==
    IF pairs = << >> THEN Zero ELSE RAdd(pairs[1][2], SumP(Tail(pairs)))

RECURSIVE FilterPairs(_)
\* keeps the (qty, prob) pairs with qty >= 0 and prob >= 0
FilterPairs(pairs) ==
    IF pairs = << >> THEN << >>
    ELSE LET h == pairs[1]
         IN  IF h[1] >= 0 /\ RLe(Zero, h[2])
             THEN << h >> \o FilterPairs(Tail(pairs))
             ELSE FilterPairs(Tail(pairs))

toProb(v) ==
    IF v = Null THEN Null
    ELSE LET p == IF RLt(One, v) THEN RDiv(v, FromInt(100)) ELSE v
         IN  clamp(p, Zero, One)

RECURSIVE Ascending(_)
\* the integer keys of an object enumerate in ascending order
Ascending(S) ==
    IF S = {} THEN << >>
    ELSE LET least == CHOOSE x \in S : \A y \in S : x <= y
         IN  << least >> \o Ascending(S \ {least})

\* obj[q] after the assignments obj[q] = p of the pairs in turn: the last one
valueAt(pairs, q) ==
    LET last == CHOOSE i \in 1..Len(pairs) :
                    /\ pairs[i][1] = q
                    /\ \A j \in (i + 1)..Len(pairs) : pairs[j][1] # q
    IN  pairs[last][2]

\* the entries of the object the pairs are assigned to, one per quantity
fromEntries(pairs) ==
    LET keys == Ascending({ pairs[i][1] : i \in 1..Len(pairs) })
    IN  [i \in 1..Len(keys) |-> << keys[i], valueAt(pairs, keys[i]) >>]

\* { qty: prob } -> probabilities normalized by their sum, or null; obj holds
\* the entries of the raw object as (Number(key), Number(value)) pairs
normalizeOutcomes(obj) ==
    IF obj = Null THEN Null
    ELSE LET pairs == FilterPairs(obj)
         IN  IF pairs = << >> THEN Null
             ELSE LET converted ==
                          [i \in 1..Len(pairs) |->
                              << pairs[i][1],
                                 IF RLt(One, pairs[i][2])
                                 THEN RDiv(pairs[i][2], FromInt(100))
                                 ELSE pairs[i][2] >>]
                      sum == SumP(converted)
                  IN  IF RLe(sum, Zero) THEN Null
                      ELSE fromEntries(
                             [i \in 1..Len(converted) |->
                               << converted[i][1],
                                  RDiv(converted[i][2], sum) >>])

toNonNegOrNull(v) ==
    IF v = Null THEN Null
    ELSE IF RLe(Zero, v) THEN v ELSE Null

RECURSIVE normalizeIngredients(_)
\* keeps the entries with a non-empty key and a quantity > 0
normalizeIngredients(ings) ==
    IF ings = << >> THEN << >>
    ELSE LET h == ings[1]
         IN  IF h[1] # "" /\ h[2] > 0
             THEN << h >> \o normalizeIngredients(Tail(ings))
             ELSE normalizeIngredients(Tail(ings))

normalizeRecipe(r) ==
    LET hasFixed == r.Yield # Null
        ymin == toNonNegOrNull(r.YieldMin)
        ymax == toNonNegOrNull(r.YieldMax)
    IN  [ Name |-> Trim(r.Name),
          FocusCost |-> nz(r.FocusCost, 0),
          Yield |-> IF hasFixed
                    THEN (IF RLt(Zero, r.Yield) THEN r.Yield ELSE One)
                    ELSE Null,
          \* if only one of min/max is present, mirror it
          YieldMin |-> IF ymin = Null THEN ymax ELSE ymin,
          YieldMax |-> IF ymax = Null THEN ymin ELSE ymax,
          TimePerCraftSeconds |-> nz(r.TimePerCraftSeconds, 0),
          IsMineable |-> r.IsMineable,
          Ingredients |-> normalizeIngredients(r.Ingredients),
          YieldOutcomes |-> normalizeOutcomes(r.YieldOutcomes),
          YieldMinChance |-> toProb(r.YieldMinChance),
          YieldMaxChance |-> toProb(r.YieldMaxChance) ]

\* map[name] := rec on a store m
Put(m, name, rec) ==
    [n \in (DOMAIN m) \cup {name} |-> IF n = name THEN rec ELSE m[n]]

EmptyMap == [n \in {} |-> Null]

RECURSIVE loadInto(_, _)
\* the loop of Store.load over an array of records
loadInto(m, raw) ==
    IF raw = << >> THEN m
    ELSE LET r == raw[1]
             nr == normalizeRecipe(r)
         IN  IF r.Name = "" \/ nr.Name = ""
             THEN loadInto(m, Tail(raw))
             ELSE loadInto(Put(m, nr.Name, nr), Tail(raw))

load(raw) == loadInto(EmptyMap, raw)

get(m, name) == IF name \in DOMAIN m THEN m[name] ELSE Null

\* The text handed to Store.load: a JSON array of records, a JSON object of
\* records keyed by name, or text JSON.parse rejects
ArrayFile(records) == [format |-> "array", records |-> records]
ObjectFile(entries) == [format |-> "object", entries |-> entries]
Unparsable == [format |-> "unparsable"]

RECURSIVE loadEntries(_, _)
\* the loop of Store.load over the entries <<name, record>> of an object
loadEntries(m, entries) ==
    IF entries = << >> THEN m
    ELSE LET name == entries[1][1]
             r == entries[1][2]
             nr == normalizeRecipe(
                     [r EXCEPT !.Name = IF r.Name # "" THEN r.Name ELSE name])
         IN  IF nr.Name = ""
             THEN loadEntries(m, Tail(entries))
             ELSE loadEntries(Put(m, nr.Name, nr), Tail(entries))

ParseError == "SyntaxError"

\* Store.load adding the records to the store m instead of replacing it
loadJsonInto(m, json) ==
    IF json.format = "unparsable"
    THEN [ error |-> ParseError, map |-> m ]
    ELSE IF json.format = "array"
    THEN [ error |-> NoError, map |-> loadInto(m, json.records) ]
    ELSE [ error |-> NoError, map |-> loadEntries(m, json.entries) ]

\* Store.load(json) on the store m: the store afterwards, and the error thrown
loadJson(m, json) ==
    IF json.format = "unparsable"
    THEN [ error |-> ParseError, map |-> m ]
    ELSE IF json.format = "array"
    THEN [ error |-> NoError, map |-> load(json.records) ]
    ELSE [ error |-> NoError, map |-> loadEntries(EmptyMap, json.entries) ]

\* delete map[name]
Without(m, name) == [n \in (DOMAIN m) \ {name} |-> m[n]]

MissingName == "Recipe must have a Name."

\* Store.upsert that keeps the entry of oldName
upsertKeepOld(m, recipe, oldName) ==
    LET r == normalizeRecipe(recipe)
    IN  IF r.Name = ""
        THEN [ error |-> MissingName, map |-> m, name |-> "",
               notified |-> FALSE ]
        ELSE [ error |-> NoError, map |-> Put(m, r.Name, r),
               name |-> r.Name, notified |-> TRUE ]

\* Store.upsert that deletes the entry of oldName before it looks at the name
upsertDeleteFirst(m, recipe, oldName) ==
    LET r == normalizeRecipe(recipe)
        rest == IF oldName # "" /\ oldName # r.Name
                THEN Without(m, oldName) ELSE m
    IN  IF r.Name = ""
        THEN [ error |-> MissingName, map |-> rest, name |-> "",
               notified |-> FALSE ]
        ELSE [ error |-> NoError, map |-> Put(rest, r.Name, r),
               name |-> r.Name, notified |-> TRUE ]

\* Store.upsert(recipe, oldName) on the store m; oldName "" is none. The
\* result holds the store afterwards, the error thrown, the name returned
\* and whether onChange() ran
upsert(m, recipe, oldName) ==
    LET r == normalizeRecipe(recipe)
    IN  IF r.Name = ""
        THEN [ error |-> MissingName, map |-> m, name |-> "",
               notified |-> FALSE ]
        ELSE [ error |-> NoError,
               map |-> Put(IF oldName # "" /\ oldName # r.Name
                           THEN Without(m, oldName) ELSE m,
                           r.Name, r),
               name |-> r.Name, notified |-> TRUE ]

\* Store.remove(name)
remove(m, name) == IF name \in DOMAIN m THEN Without(m, name) ELSE m

\* Store.clear()
clear(m) == EmptyMap

\* readForm(): the record built from the fields of the recipe form; form is
\* a raw record with the selected yield type
readForm(form) ==
    LET outPairs == IF form.YieldOutcomes = Null THEN << >>
                    ELSE FilterPairs(form.YieldOutcomes)
        rec == [ Name |-> Trim(form.Name),
                 IsMineable |-> form.IsMineable,
                 FocusCost |-> << nz(form.FocusCost, 0) >>,
                 TimePerCraftSeconds |-> << nz(form.TimePerCraftSeconds, 0) >>,
                 Yield |-> form.Yield,
                 YieldMin |-> form.YieldMin,
                 YieldMax |-> form.YieldMax,
                 YieldOutcomes |-> IF outPairs = << >> THEN Null
                                   ELSE fromEntries(outPairs),
                 YieldMinChance |-> form.YieldMinChance,
                 YieldMaxChance |-> form.YieldMaxChance,
                 Ingredients |-> normalizeIngredients(form.Ingredients) ]
    IN  IF form.type = "fixed"
        THEN [rec EXCEPT !.YieldMin = Null, !.YieldMax = Null,
                         !.YieldOutcomes = Null]
        ELSE IF form.type = "range"
        THEN [rec EXCEPT !.Yield = Null, !.YieldOutcomes = Null]
        ELSE IF form.type = "multi"
        THEN [rec EXCEPT !.Yield = Null, !.YieldMin = Null, !.YieldMax = Null]
        ELSE rec

\* ------------------------------------------------------------------------
\* Profile (src/app.js:482-510)
\* ------------------------------------------------------------------------
DefaultProfile ==
    [ fastCraft |-> FALSE, ultraFast |-> FALSE,
      yieldMultPct |-> 0, craftBonusPct |-> 0, gatherDoublePct |-> 0 ]

\* ------------------------------------------------------------------------
\* Core calc (src/app.js:1191-1332)
\* ------------------------------------------------------------------------
Safe == "safe"
Avg == "average"
Opt == "optimistic"
YieldMode == {Safe, Avg, Opt}

RECURSIVE MinQ(_)
MinQ(pairs) ==
    IF Len(pairs) = 1 THEN pairs[1][1]
    ELSE LET t == MinQ(Tail(pairs))
         IN  IF pairs[1][1] < t THEN pairs[1][1] ELSE t

RECURSIVE MaxQ(_)
MaxQ(pairs) ==
    IF Len(pairs) = 1 THEN pairs[1][1]
    ELSE LET t == MaxQ(Tail(pairs))
         IN  IF pairs[1][1] > t THEN pairs[1][1] ELSE t

RECURSIVE WeightedSum(_, _)
\* pairs.reduce((s, [q, p]) => s + q * (p / sumP), 0)
WeightedSum(pairs, sumP) ==
    IF pairs = << >> THEN Zero
    ELSE RAdd(RMul(FromInt(pairs[1][1]), RDiv(pairs[1][2], sumP)),
              WeightedSum(Tail(pairs), sumP))

\* the outcomes branch with the midpoint of the quantities as the average
outcomesYieldMidpoint(pairs, mode) ==
    LET min == MinQ(pairs)
        max == MaxQ(pairs)
    IN  IF mode = Safe THEN RMax(Zero, FromInt(min))
        ELSE IF mode = Opt THEN RMax(Zero, FromInt(max))
        ELSE RMax(Zero, RDiv(FromInt(min + max), FromInt(2)))

\* 1) the outcomes branch of effectiveYield
outcomesYield(pairs, mode) ==
    LET min == MinQ(pairs)
        max == MaxQ(pairs)
        sp == SumP(pairs)
        sumP == IF sp = Zero THEN One ELSE sp
        avg == WeightedSum(pairs, sumP)
    IN  IF mode = Safe THEN RMax(Zero, FromInt(min))
        ELSE IF mode = Opt THEN RMax(Zero, FromInt(max))
        ELSE RMax(Zero, avg)

\* 2) the min/max branch of effectiveYield
rangeYield(rec, mode) ==
    LET hasMin == rec.YieldMin # Null /\ RLe(Zero, rec.YieldMin)
        hasMax == rec.YieldMax # Null /\ RLe(Zero, rec.YieldMax)
        fixed == IF rec.Yield = Null THEN One ELSE rec.Yield
        min == IF hasMin THEN rec.YieldMin ELSE fixed
        max == IF hasMax THEN rec.YieldMax ELSE fixed
        mid == RMax(Zero, RDiv(RAdd(min, max), FromInt(2)))
        cMin == rec.YieldMinChance
        cMax == rec.YieldMaxChance
    IN  IF mode = Safe THEN RMax(Zero, min)
        ELSE IF mode = Opt THEN RMax(Zero, max)
        ELSE IF cMin = Null /\ cMax = Null THEN mid
        ELSE LET pMin == IF cMin = Null THEN RSub(One, cMax) ELSE cMin
                 pMax == IF cMax = Null THEN RSub(One, cMin) ELSE cMax
                 sum == RAdd(pMin, pMax)
             IN  IF RLe(sum, Zero) THEN mid
                 ELSE RMax(Zero, RAdd(RMul(min, RDiv(pMin, sum)),
                                      RMul(max, RDiv(pMax, sum))))

\* effectiveYield with the min/max window looked at before the outcomes
effectiveYieldRangeFirst(rec, mode) ==
    LET pairs == IF rec.YieldOutcomes = Null THEN << >>
                 ELSE FilterPairs(rec.YieldOutcomes)
    IN  IF rec.YieldMin # Null \/ rec.YieldMax # Null
        THEN rangeYield(rec, mode)
        ELSE IF pairs # << >> THEN outcomesYield(pairs, mode)
        ELSE RMax(Zero, IF rec.Yield = Null THEN One ELSE rec.Yield)

effectiveYield(rec, mode) ==
    LET pairs == IF rec.YieldOutcomes = Null THEN << >>
                 ELSE FilterPairs(rec.YieldOutcomes)
    IN  IF pairs # << >> THEN outcomesYield(pairs, mode)
        ELSE IF \/ rec.YieldMin # Null /\ RLe(Zero, rec.YieldMin)
                \/ rec.YieldMax # Null /\ RLe(Zero, rec.YieldMax)
             THEN rangeYield(rec, mode)
        ELSE RMax(Zero, IF rec.Yield = Null THEN One ELSE rec.Yield)

\* s is Profile.get()
applyProfileYield(s, action, baseYield) ==
    LET y0 == RMax(Zero, baseYield)
        y1 == RMul(y0, Rat(100 + s.yieldMultPct, 100))
    IN  IF action = "Craft"
        THEN RAdd(y1, RMax(Zero, Rat(s.craftBonusPct, 100)))
        ELSE RMul(y1, RAdd(One, RMax(Zero, Rat(s.gatherDoublePct, 100))))

Max0(a) == IF a < 0 THEN 0 ELSE a
MinInt(a, b) == IF a < b THEN a ELSE b

effectiveTimePerCraft(s, rec, action) ==
    LET t == Max0(rec.TimePerCraftSeconds)
    IN  IF action # "Craft" THEN t
        ELSE IF s.ultraFast THEN MinInt(t, 2)
        ELSE IF s.fastCraft THEN MinInt(t, 3)
        ELSE t

\* Store.get(name) finds no recipe
unknownMaterial(m, name) == name \notin DOMAIN m

\* stack.includes(name)
includes(stack, name) == \E i \in 1..Len(stack) : stack[i] = name

actionOf(rec) ==
    IF rec.IsMineable
    THEN (IF rec.FocusCost > 0 THEN "Mine" ELSE "Gather")
    ELSE "Craft"

\* variant of zeroYield that forgets the reqUnits > 0 condition
zeroYieldAlways(reqUnits, y) == RLe(y, Zero)

\* the guard of the "Effective yield is 0" throw
zeroYield(reqUnits, y) == reqUnits > 0 /\ RLe(y, Zero)

\* the tiny float guard of the divisor
Epsilon == Rat(1, 10000000)

\* variant of craftsOf with one output per craft whatever the yield
craftsIgnoringYield(reqUnits, y) == reqUnits

\* Math.ceil(reqUnits / Math.max(y, 0.0000001))
craftsOf(reqUnits, y) == CeilDiv(reqUnits, RMax(y, Epsilon))

nodeFocusOf(crafts, rec) == crafts * rec.FocusCost

\* variant of needOf that asks for one craft's worth whatever the crafts
needIgnoringCrafts(perCraft, crafts) == perCraft

\* const need = perCraft * crafts
needOf(perCraft, crafts) == perCraft * crafts

\* variant of childLevel that keeps the ingredients on their parent's level
childLevelSame(level) == level

\* recurse(ing, need, level + 1)
childLevel(level) == level + 1

\* variant of push that puts the name on the stack twice
pushTwice(stack, name) == Append(Append(stack, name), name)

\* stack.push(name)
push(stack, name) == Append(stack, name)

\* variant of pop that leaves the name on the stack
popNothing(stack) == stack

\* stack.pop()
pop(stack) == SubSeq(stack, 1, Len(stack) - 1)

UnknownMaterial == "UnknownMaterial"
CycleDetected == "CycleDetected"
ZeroEffectiveYield == "ZeroEffectiveYield"

\* LET x == v IN F(x), with v evaluated once and x bound to its value
With(v, F(_)) == CHOOSE out \in { F(x) : x \in {v} } : TRUE

\* The closure state of one calculateFocus call: stack and lines are the two
\* arrays of the closure, error/errorName the exception in flight (if any;
\* errorUnits the demand of the node that threw), ret the value returned by
\* the innermost completed recurse call, and paths the stack as it stood
\* after each push (one entry per line).
RECURSIVE recurse(_, _, _, _, _, _, _)
RECURSIVE forIngredients(_, _, _, _, _, _, _, _)

\* the part of recurse after stack.push(name)
visit(m, s, mode, st, rec, reqUnits, level, y) ==
    LET stack1 == push(st.stack, rec.Name)
        action == actionOf(rec)
    IN  IF zeroYield(reqUnits, y)
        THEN [st EXCEPT !.stack = stack1,
                        !.error = ZeroEffectiveYield, !.errorName = rec.Name,
                        !.errorUnits = reqUnits]
        ELSE
          With(craftsOf(reqUnits, y), LAMBDA crafts :
            LET nodeFocus == nodeFocusOf(crafts, rec)
                nodeTime == crafts * effectiveTimePerCraft(s, rec, action)
                line == [ Level |-> level,
                          Action |-> action,
                          Material |-> rec.Name,
                          Crafts |-> crafts,
                          Yield |-> y,
                          UnitsRequested |-> reqUnits,
                          FocusUsed |-> nodeFocus,
                          TimeUsedSeconds |-> nodeTime ]
            IN  With([st EXCEPT !.stack = stack1,
                                !.lines = Append(st.lines, line),
                                !.paths = Append(st.paths, stack1)],
                     LAMBDA st1 :
                  With(forIngredients(m, s, mode, st1, rec.Ingredients,
                                      crafts, level, nodeFocus),
                       LAMBDA st2 :
                    IF st2.error # NoError THEN st2
                    ELSE [st2 EXCEPT !.stack = pop(st2.stack)])))

\* variant of recurse that takes a name already on the stack for a node
\* that is done and costs nothing
recurseSkipVisited(m, s, mode, st, name, reqUnits, level) ==
    IF unknownMaterial(m, name)
    THEN [st EXCEPT !.error = UnknownMaterial, !.errorName = name,
                    !.errorUnits = reqUnits]
    ELSE IF includes(st.stack, name)
    THEN [st EXCEPT !.ret = 0]
    ELSE With(applyProfileYield(s, actionOf(m[name]),
                                effectiveYield(m[name], mode)),
              LAMBDA y : visit(m, s, mode, st, m[name], reqUnits, level, y))

\* variant of recurse that takes a name without recipe for a free leaf
recurseUnknownFree(m, s, mode, st, name, reqUnits, level) ==
    IF unknownMaterial(m, name)
    THEN [st EXCEPT !.ret = 0]
    ELSE IF includes(st.stack, name)
    THEN [st EXCEPT !.error = CycleDetected, !.errorName = name,
                    !.errorUnits = reqUnits]
    ELSE With(applyProfileYield(s, actionOf(m[name]),
                                effectiveYield(m[name], mode)),
              LAMBDA y : visit(m, s, mode, st, m[name], reqUnits, level, y))

recurse(m, s, mode, st, name, reqUnits, level) ==
    IF unknownMaterial(m, name)
    THEN [st EXCEPT !.error = UnknownMaterial, !.errorName = name,
                    !.errorUnits = reqUnits]
    ELSE IF includes(st.stack, name)
    THEN [st EXCEPT !.error = CycleDetected, !.errorName = name,
                    !.errorUnits = reqUnits]
    ELSE With(applyProfileYield(s, actionOf(m[name]),
                                effectiveYield(m[name], mode)),
              LAMBDA y : visit(m, s, mode, st, m[name], reqUnits, level, y))

\* variant of accumulate that keeps only the last child's total
accumulateLast(totalFocus, childFocus) == childFocus

\* variant of accumulate that subtracts the child's total
accumulateDifference(totalFocus, childFocus) == totalFocus - childFocus

\* totalFocus += recurse(...)
accumulate(totalFocus, childFocus) == totalFocus + childFocus

\* for (const [ing, perCraft] of Object.entries(rec.Ingredients)) ...
forIngredients(m, s, mode, st, ings, crafts, level, totalFocus) ==
    IF ings = << >> THEN [st EXCEPT !.ret = totalFocus]
    ELSE With(needOf(ings[1][2], crafts), LAMBDA need :
           With(recurse(m, s, mode, st, ings[1][1], need, childLevel(level)),
                LAMBDA st1 :
             IF st1.error # NoError THEN st1
             ELSE With(accumulate(totalFocus, st1.ret), LAMBDA total :
                    With(Tail(ings), LAMBDA rest :
                      forIngredients(m, s, mode, st1, rest, crafts, level,
                                     total)))))

\* The outcome of a call: error = NoError and { totalFocus, lines }, or the
\* error thrown (with the name it is about).  stack, paths, errorUnits and
\* visited (the lines pushed up to the return or the throw) are kept for the
\* properties of the traversal.
calculateFocus(m, s, target, unitsRequested, mode) ==
    With(recurse(m, s, mode,
                 [ stack |-> << >>, lines |-> << >>, paths |-> << >>,
                   error |-> NoError, errorName |-> "", errorUnits |-> 0,
                   ret |-> 0 ],
                 target, unitsRequested, 0),
         LAMBDA st :
      [ error |-> st.error,
        errorName |-> st.errorName,
        errorUnits |-> st.errorUnits,
        totalFocus |-> IF st.error = NoError THEN st.ret ELSE 0,
        lines |-> IF st.error = NoError THEN st.lines ELSE << >>,
        visited |-> st.lines,
        stack |-> st.stack,
        paths |-> st.paths ])

RECURSIVE sumTimeSeconds(_)
sumTimeSeconds(lines) ==
    IF lines = << >> THEN 0
    ELSE lines[1].TimeUsedSeconds + sumTimeSeconds(Tail(lines))

\* the hard ceiling of the doubling phase
HardCeiling == 1000000000

\* variant of exceeds that lets the trial cost pass the budget by two
exceedsByTwo(f, availableFocus) == f > availableFocus + 2

\* if (f > availableFocus) break
exceeds(f, availableFocus) == f > availableFocus

\* variant of affordable: a budget that is met exactly counts as exceeded
affordableStrict(f, availableFocus) == f < availableFocus

\* if (f <= availableFocus) lo = mid; else hi = mid - 1
affordable(f, availableFocus) == f <= availableFocus

RECURSIVE doubling(_, _, _, _, _, _, _)
\* first while loop: the final hi, or the error of a failing call;
\* calls counts the calculateFocus calls made so far
doubling(m, s, target, availableFocus, mode, hi, calls) ==
    LET r == calculateFocus(m, s, target, hi, mode)
    IN  IF r.error # NoError
        THEN [ error |-> r.error, errorName |-> r.errorName,
               hi |-> hi, calls |-> calls + 1 ]
        ELSE IF exceeds(r.totalFocus, availableFocus)
        THEN [ error |-> NoError, errorName |-> "", hi |-> hi,
               calls |-> calls + 1 ]
        ELSE IF hi * 2 > HardCeiling
        THEN [ error |-> NoError, errorName |-> "", hi |-> hi * 2,
               calls |-> calls + 1 ]
        ELSE doubling(m, s, target, availableFocus, mode, hi * 2, calls + 1)

\* lo + Math.floor((hi - lo + 1) / 2)
midpoint(lo, hi) == lo + ((hi - lo + 1) \div 2)

\* one iteration of the second while loop: the midpoint tried, and lo and hi
\* afterwards (or the error of the failing call)
narrow(m, s, target, availableFocus, mode, lo, hi) ==
    With(midpoint(lo, hi), LAMBDA mid :
      LET r == calculateFocus(m, s, target, mid, mode)
      IN  IF r.error # NoError
          THEN [ error |-> r.error, errorName |-> r.errorName,
                 mid |-> mid, lo |-> lo, hi |-> hi ]
          ELSE IF affordable(r.totalFocus, availableFocus)
          THEN [ error |-> NoError, errorName |-> "",
                 mid |-> mid, lo |-> mid, hi |-> hi ]
          ELSE [ error |-> NoError, errorName |-> "",
                 mid |-> mid, lo |-> lo, hi |-> mid - 1 ])

RECURSIVE bisect(_, _, _, _, _, _, _, _)
\* second while loop
bisect(m, s, target, availableFocus, mode, lo, hi, calls) ==
    IF ~(lo < hi)
    THEN [ error |-> NoError, errorName |-> "", value |-> lo, calls |-> calls ]
    ELSE LET n == narrow(m, s, target, availableFocus, mode, lo, hi)
         IN  IF n.error # NoError
             THEN [ error |-> n.error, errorName |-> n.errorName,
                    value |-> 0, calls |-> calls + 1 ]
             ELSE bisect(m, s, target, availableFocus, mode, n.lo, n.hi,
                         calls + 1)

\* the two loops of maxCraftable, entered once one unit is known to cost > 0
search(m, s, target, availableFocus, mode) ==
    With(doubling(m, s, target, availableFocus, mode, 1, 1),
         LAMBDA d :
      IF d.error # NoError
      THEN [ error |-> d.error, errorName |-> d.errorName,
             value |-> 0, calls |-> d.calls ]
      ELSE bisect(m, s, target, availableFocus, mode, 0, d.hi, d.calls))

\* variant of maxCraftable that takes a failing one-unit call for a free chain
maxCraftableSwallow(m, s, target, availableFocus, mode) ==
    LET one == calculateFocus(m, s, target, 1, mode)
    IN  IF one.error # NoError \/ one.totalFocus <= 0
        THEN [ error |-> NoError, errorName |-> "", value |-> 0, calls |-> 1 ]
        ELSE search(m, s, target, availableFocus, mode)

\* variant of maxCraftable that answers a free chain with the budget itself
maxCraftableFreeAsBudget(m, s, target, availableFocus, mode) ==
    LET one == calculateFocus(m, s, target, 1, mode)
    IN  IF one.error # NoError
        THEN [ error |-> one.error, errorName |-> one.errorName,
               value |-> 0, calls |-> 1 ]
        ELSE IF one.totalFocus <= 0
        THEN [ error |-> NoError, errorName |-> "",
               value |-> availableFocus, calls |-> 1 ]
        ELSE search(m, s, target, availableFocus, mode)

maxCraftable(m, s, target, availableFocus, mode) ==
    LET one == calculateFocus(m, s, target, 1, mode)
    IN  IF one.error # NoError
        THEN [ error |-> one.error, errorName |-> one.errorName,
               value |-> 0, calls |-> 1 ]
        ELSE IF one.totalFocus <= 0
        THEN [ error |-> NoError, errorName |-> "", value |-> 0, calls |-> 1 ]
        ELSE search(m, s, target, availableFocus, mode)

\* ------------------------------------------------------------------------
\* Rendering: the leaf checklist (src/app.js:1349-1368)
\* ------------------------------------------------------------------------
\* the strings the checklist sorts, in the order of localeCompare
Collation == << "Burning Powder", "Charcoal", "Craft", "Gather", "Logs", "Mine" >>

Rank(str) == CHOOSE i \in 1..Len(Collation) : Collation[i] = str

\* a.localeCompare(b): negative, 0 or positive
localeCompare(a, b) == Rank(a) - Rank(b)

\* !rec || !rec.Ingredients || Object.keys(rec.Ingredients).length === 0
isLeaf(m, name) == name \notin DOMAIN m \/ m[name].Ingredients = << >>

\* rec?.Yield || 1
fallbackYield(m, name) ==
    IF name \notin DOMAIN m THEN One
    ELSE IF m[name].Yield = Null \/ m[name].Yield = Zero THEN One
    ELSE m[name].Yield

\* variant of addUnits that keeps only the units of the last occurrence
addUnitsLast(units, unitsRequested) == unitsRequested

\* leaves[ln.Material].units += ln.UnitsRequested
addUnits(units, unitsRequested) == units + unitsRequested

\* the index of the entry of a name in leaves, 0 when there is none
leafIndex(leaves, name) ==
    IF \E i \in 1..Len(leaves) : leaves[i].name = name
    THEN CHOOSE i \in 1..Len(leaves) : leaves[i].name = name
    ELSE 0

\* the body of the first loop for one leaf line
addLeafLine(m, leaves, ln) ==
    LET entered ==
            IF leafIndex(leaves, ln.Material) = 0
            THEN Append(leaves,
                        [ name |-> ln.Material,
                          units |-> 0,
                          yieldEff |-> IF RLt(Zero, ln.Yield) THEN ln.Yield
                                       ELSE fallbackYield(m, ln.Material) ])
            ELSE leaves
        i == leafIndex(entered, ln.Material)
    IN  [entered EXCEPT
            ![i].units = addUnits(@, ln.UnitsRequested),
            ![i].yieldEff = IF RLt(Zero, ln.Yield) THEN ln.Yield ELSE @]

RECURSIVE collectLeaves(_, _, _)
\* for (const ln of lines) ...: the entries of leaves in insertion order
collectLeaves(m, lines, leaves) ==
    IF lines = << >> THEN leaves
    ELSE IF ~isLeaf(m, lines[1].Material)
    THEN collectLeaves(m, Tail(lines), leaves)
    ELSE With(addLeafLine(m, leaves, lines[1]), LAMBDA added :
           collectLeaves(m, Tail(lines), added))

\* Math.max(1, v.yieldEff)
leafYield(yieldEff) == RMax(One, yieldEff)

\* the row of one entry of leaves
rowOf(m, v) ==
    LET known == v.name \in DOMAIN m
        cost == IF known THEN m[v.name].FocusCost ELSE 0
        secs == IF known THEN Max0(m[v.name].TimePerCraftSeconds) ELSE 0
        yieldEff == leafYield(v.yieldEff)
        crafts == CeilDiv(v.units, yieldEff)
    IN  [ action |-> IF known /\ m[v.name].IsMineable
                     THEN (IF cost > 0 THEN "Mine" ELSE "Gather")
                     ELSE "Craft",
          name |-> v.name,
          crafts |-> crafts,
          yieldEff |-> yieldEff,
          units |-> v.units,
          focus |-> crafts * cost,
          time |-> crafts * secs ]

\* (b.focus - a.focus) || a.action.localeCompare(b.action)
\*                     || a.name.localeCompare(b.name)
compareRows(a, b) ==
    IF b.focus - a.focus # 0 THEN b.focus - a.focus
    ELSE IF localeCompare(a.action, b.action) # 0
    THEN localeCompare(a.action, b.action)
    ELSE localeCompare(a.name, b.name)

RECURSIVE insertRow(_, _)
\* r placed behind the rows that do not sort after it
insertRow(sorted, r) ==
    IF sorted = << >> THEN << r >>
    ELSE IF compareRows(sorted[1], r) <= 0
    THEN << sorted[1] >> \o insertRow(Tail(sorted), r)
    ELSE << r >> \o sorted

RECURSIVE sortRows(_, _)
\* rows.sort(...): stable
sortRows(rows, sorted) ==
    IF rows = << >> THEN sorted
    ELSE sortRows(Tail(rows), insertRow(sorted, rows[1]))

\* the rows of the leaf table, top to bottom
renderLeafChecklist(m, lines) ==
    With(collectLeaves(m, lines, << >>), LAMBDA leaves :
      sortRows([i \in 1..Len(leaves) |-> rowOf(m, leaves[i])], << >>))

\* ------------------------------------------------------------------------
\* The console program (src/unnamed/part_000)
\* ------------------------------------------------------------------------
\* Of a recipe the console model keeps the name and the ingredient names in
\* the order of the file: no quantity steers the traversal of Recurse or of
\* FindCycle, and neither throws on a quantity.

\* the spelling StringComparer.OrdinalIgnoreCase compares
ToUpperInvariant(name) ==
    CASE name = "Ingot" -> "INGOT"
      [] name = "Ore" -> "ORE"
      [] name = "ore" -> "ORE"
      [] name = "Coal" -> "COAL"
      [] name = "Flux" -> "FLUX"
      [] OTHER -> name

\* Stack<string>: the top is the head, and enumeration goes top to bottom
Push(stack, name) == << name >> \o stack
Pop(stack) == Tail(stack)
\* stack.Contains(name): the default comparer, ordinal
Contains(stack, name) == \E i \in 1..Len(stack) : stack[i] = name
\* Enumerable.Reverse
Reverse(seq) == [i \in 1..Len(seq) |-> seq[Len(seq) + 1 - i]]

\* _recipes is an insertion-ordered list of entries (Key, Name, Ingredients)
\* under OrdinalIgnoreCase: the index of the entry of a name, 0 for none
TryGetValue(recipes, name) ==
    IF \E i \in 1..Len(recipes) :
          ToUpperInvariant(recipes[i].Key) = ToUpperInvariant(name)
    THEN CHOOSE i \in 1..Len(recipes) :
          ToUpperInvariant(recipes[i].Key) = ToUpperInvariant(name)
    ELSE 0

\* r.Ingredients ??= new Dictionary<string, double>(...)
Normalize(r) ==
    [ Name |-> r.Name,
      Ingredients |-> IF r.Ingredients = Null THEN << >> ELSE r.Ingredients ]

\* _recipes[r.Name] = Normalize(r): a new key is added at the end, a known
\* key keeps its place and its spelling
SetItem(recipes, r) ==
    LET i == TryGetValue(recipes, r.Name)
        n == Normalize(r)
    IN  IF i = 0
        THEN Append(recipes, [ Key |-> r.Name, Name |-> n.Name,
                               Ingredients |-> n.Ingredients ])
        ELSE [recipes EXCEPT ![i] = [ Key |-> @.Key, Name |-> n.Name,
                                      Ingredients |-> n.Ingredients ]]

RECURSIVE LoadArray(_, _)
\* foreach (var r in asArray) ...
LoadArray(asArray, recipes) ==
    IF asArray = << >> THEN recipes
    ELSE IF Trim(asArray[1].Name) = ""
    THEN LoadArray(Tail(asArray), recipes)
    ELSE With(SetItem(recipes, asArray[1]), LAMBDA added :
           LoadArray(Tail(asArray), added))

InvalidRecipes == "recipes.json is empty or invalid."

\* LoadOrCreateRecipesJson on a file holding an array: an empty array goes
\* on to the map attempt, which fails on an array and leaves _recipes alone
LoadOrCreateRecipesJson(recipes, asArray) ==
    IF Len(asArray) > 0
    THEN [ error |-> NoError, recipes |-> LoadArray(asArray, << >>) ]
    ELSE [ error |-> InvalidRecipes, recipes |-> recipes ]

\* color.TryGetValue(node, out c), c = 0 when unseen
colorOf(color, node) ==
    IF ToUpperInvariant(node) \in DOMAIN color
    THEN color[ToUpperInvariant(node)]
    ELSE 0

\* color[node] = c
setColor(color, node, c) ==
    [ k \in DOMAIN color \cup {ToUpperInvariant(node)} |->
        IF k = ToUpperInvariant(node) THEN c ELSE color[k] ]

\* variant of visiting that also takes a finished node for one in progress
visitingOrDone(c) == c >= 1

\* if (c == 1)
visiting(c) == c = 1

RECURSIVE Dfs(_, _, _)
RECURSIVE DfsIngredients(_, _, _)

\* bool Dfs(string node): st.found is the value returned
Dfs(recipes, st, node) ==
    With(colorOf(st.color, node), LAMBDA c :
      IF visiting(c)
      THEN [st EXCEPT !.path = Push(@, node), !.found = TRUE]
      ELSE IF c = 2 THEN st
      ELSE
        With([st EXCEPT !.color = setColor(@, node, 1),
                        !.path = Push(@, node)],
             LAMBDA st1 :
          With(IF TryGetValue(recipes, node) # 0
               THEN DfsIngredients(recipes, st1,
                        recipes[TryGetValue(recipes, node)].Ingredients)
               ELSE st1,
               LAMBDA st2 :
            IF st2.found THEN st2
            ELSE [st2 EXCEPT !.path = Pop(@),
                             !.color = setColor(@, node, 2)])))

\* foreach (var ing in r.Ingredients.Keys) if (Dfs(ing)) return true;
DfsIngredients(recipes, st, ings) ==
    IF ings = << >> THEN st
    ELSE With(Dfs(recipes, st, ings[1]), LAMBDA st1 :
           IF st1.found THEN st1
           ELSE DfsIngredients(recipes, st1, Tail(ings)))

RECURSIVE DfsKeys(_, _, _)
\* foreach (var key in _recipes.Keys) if (Dfs(key)) return ...
DfsKeys(recipes, st, i) ==
    IF i > Len(recipes) THEN st
    ELSE With(Dfs(recipes, st, recipes[i].Key), LAMBDA st1 :
           IF st1.found THEN st1
           ELSE DfsKeys(recipes, st1, i + 1))

\* the path of a cycle, the key the search started from first, or null
FindCycle(recipes) ==
    With(DfsKeys(recipes,
                 [ color |-> << >>, path |-> << >>, found |-> FALSE ], 1),
         LAMBDA st : IF st.found THEN Reverse(st.path) ELSE Null)

RECURSIVE Recurse(_, _, _, _)
RECURSIVE RecurseIngredients(_, _, _, _)

\* Recurse(name, unitsRequested, level, lines, stack, mode) without its
\* quantities: st holds stack and lines and the exception in flight
Recurse(recipes, st, name, level) ==
    IF TryGetValue(recipes, name) = 0
    THEN [st EXCEPT !.error = UnknownMaterial, !.errorName = name]
    ELSE IF Contains(st.stack, name)
    THEN [st EXCEPT !.error = CycleDetected, !.errorName = name]
    ELSE
      With(recipes[TryGetValue(recipes, name)], LAMBDA r :
        With([st EXCEPT !.stack = Push(@, name),
                        !.lines = Append(@, [ Level |-> level,
                                              Material |-> r.Name ])],
             LAMBDA st1 :
          With(RecurseIngredients(recipes, st1, r.Ingredients, level),
               LAMBDA st2 :
            IF st2.error # NoError THEN st2
            ELSE [st2 EXCEPT !.stack = Pop(@)])))

\* foreach (var kv in r.Ingredients) ... Recurse(ing, needUnits, level + 1, ...)
RecurseIngredients(recipes, st, ings, level) ==
    IF ings = << >> THEN st
    ELSE With(Recurse(recipes, st, ings[1], level + 1), LAMBDA st1 :
           IF st1.error # NoError THEN st1
           ELSE RecurseIngredients(recipes, st1, Tail(ings), level))

\* CalculateFocus(target, unitsRequested, mode): the lines, or the exception
\* with the stack as it stood at the throw
CalculateFocus(recipes, target) ==
    Recurse(recipes,
            [ stack |-> << >>, lines |-> << >>,
              error |-> NoError, errorName |-> "" ],
            target, 0)

\* ------------------------------------------------------------------------
\* Inputs of the model
\* ------------------------------------------------------------------------
BP == "Burning Powder"
CH == "Charcoal"
LG == "Logs"
Names == {BP, CH, LG}

RawRecipe(name, cost, time, mine, yspec, ings) ==
    [ Name |-> name,
      FocusCost |-> cost,
      Yield |-> yspec.Yield,
      YieldMin |-> yspec.YieldMin,
      YieldMax |-> yspec.YieldMax,
      TimePerCraftSeconds |-> time,
      IsMineable |-> mine,
      Ingredients |-> ings,
      YieldOutcomes |-> yspec.YieldOutcomes,
      YieldMinChance |-> yspec.YieldMinChance,
      YieldMaxChance |-> yspec.YieldMaxChance ]

NoYield ==
    [ Yield |-> Null, YieldMin |-> Null, YieldMax |-> Null,
      YieldOutcomes |-> Null, YieldMinChance |-> Null, YieldMaxChance |-> Null ]
Fixed(q) == [NoYield EXCEPT !.Yield = FromInt(q)]
Range(lo, hi) ==
    [NoYield EXCEPT !.YieldMin = FromInt(lo), !.YieldMax = FromInt(hi)]
Outcomes(pairs) == [NoYield EXCEPT !.YieldOutcomes = pairs]

\* The three records of SAMPLE that scenario A/C of the specification uses
SAMPLE ==
    << RawRecipe(BP, <<20>>, <<5>>, FALSE, Fixed(15), << <<CH, 1>> >>),
       RawRecipe(CH, <<0>>, <<5>>, FALSE, Fixed(10), << <<LG, 28>> >>),
       RawRecipe(LG, <<0>>, <<0>>, TRUE, Fixed(1), << >>) >>

\* Ingredient lists a loaded record of each name may carry (the list of a
\* name that is not loaded at all is marked absent)
Ing(list) == [present |-> TRUE, ings |-> list]
Absent == [present |-> FALSE, ings |-> << >>]

IngChoices(name) ==
    IF name = BP
    THEN { Absent, Ing(<< >>), Ing(<< <<CH, 1>> >>),
           Ing(<< <<CH, 1>>, <<LG, 2>> >>), Ing(<< <<LG, 2>>, <<CH, 1>> >>),
           Ing(<< <<BP, 1>> >>) }
    ELSE IF name = CH
    THEN { Absent, Ing(<< >>), Ing(<< <<LG, 2>> >>), Ing(<< <<BP, 1>> >>) }
    ELSE { Absent, Ing(<< >>), Ing(<< <<CH, 1>> >>) }

Shapes == { sh \in [Names -> UNION { IngChoices(n) : n \in Names }] :
              \A n \in Names : sh[n] \in IngChoices(n) }

\* every name loaded, every edge leading from BP towards LG
Layered(sh) ==
    /\ \A n \in Names : sh[n].present
    /\ sh[BP].ings # << <<BP, 1>> >>
    /\ sh[CH].ings # << <<BP, 1>> >>
    /\ sh[LG].ings = << >>

\* FocusCost, TimePerCraftSeconds and IsMineable of the three records
Costing(cBP, cCH, cLG) ==
    [ cost |-> (BP :> <<cBP>> @@ CH :> <<cCH>> @@ LG :> <<cLG>>),
      time |-> (BP :> <<5>> @@ CH :> <<2>> @@ LG :> <<1>>),
      mine |-> (BP :> FALSE @@ CH :> FALSE @@ LG :> TRUE) ]

TopCost == Costing(1, 0, 0)
Costings ==
    { TopCost, Costing(0, 0, 1), Costing(2, 1, 1), Costing(1, -1, 0),
      Costing(1, 0, -1) }

Half == Rat(1, 2)
PlainYield == (BP :> NoYield @@ CH :> Fixed(2) @@ LG :> Fixed(1))
LeafZero == (BP :> Fixed(1) @@ CH :> Fixed(1) @@ LG :> Range(0, 2))
Yieldings ==
    { PlainYield,
      LeafZero,
      (BP :> Fixed(2) @@ CH :> Range(1, 2) @@ LG :> Fixed(1)),
      (BP :> Range(2, 1) @@ CH :> Fixed(1) @@ LG :> Range(1, 3)),
      (BP :> Outcomes(<< <<0, Half>>, <<2, Half>> >>) @@ CH :> Fixed(1)
          @@ LG :> Fixed(1)),
      (BP :> Fixed(1)
          @@ CH :> Outcomes(<< <<1, FromInt(70)>>, <<2, FromInt(20)>>,
                               <<3, FromInt(10)>> >>)
          @@ LG :> [Range(1, 2) EXCEPT !.YieldMinChance = Rat(1, 4)]),
      (BP :> Fixed(1) @@ CH :> Fixed(1)
          @@ LG :> [NoYield EXCEPT !.Yield = Half]) }

RECURSIVE RecordsOf(_, _, _, _)
\* the array of raw records of the names in order
RecordsOf(order, sh, k, y) ==
    IF order = << >> THEN << >>
    ELSE LET n == order[1]
             rest == RecordsOf(Tail(order), sh, k, y)
         IN  IF sh[n].present
             THEN << RawRecipe(n, k.cost[n], k.time[n], k.mine[n], y[n],
                               sh[n].ings) >> \o rest
             ELSE rest

\* The recipe files offered to Store.load
RawStores ==
    { RecordsOf(<< BP, CH, LG >>, sh, k, y) :
        <<sh, k, y>> \in
          { t \in Shapes \X Costings \X Yieldings :
              \/ Layered(t[1])
              \/ t[2] = TopCost /\ t[3] \in {PlainYield, LeafZero} } }

\* the same as texts handed to Store.load
RawFiles == { ArrayFile(raw) : raw \in RawStores }

Profiles ==
    { DefaultProfile,
      [ fastCraft |-> TRUE, ultraFast |-> FALSE,
        yieldMultPct |-> 100, craftBonusPct |-> 0, gatherDoublePct |-> 0 ],
      [ fastCraft |-> FALSE, ultraFast |-> TRUE,
        yieldMultPct |-> 0, craftBonusPct |-> 50, gatherDoublePct |-> 100 ] }

MaxUnits == 3
MaxBudget == 2

Units == 0..MaxUnits
\* 100 is the budget of scenario C; 2^30 + 1 lies beyond the hard ceiling
Budgets == (0..MaxBudget) \cup {100}
BeyondCeiling == {1073741825}

\* ------------------------------------------------------------------------
\* Inputs of the recipe form and of the import panel
\* ------------------------------------------------------------------------
A == "A"
B == "B"
Blank == " "
StoreNames == {A, B}

\* the outcome distribution {1: 0.7, 2: 0.2, 3: 0.1}
Example ==
    Outcomes(<< <<1, Rat(7, 10)>>, <<2, Rat(2, 10)>>, <<3, Rat(1, 10)>> >>)
\* one quantity under two spellings of its key: {"1": 0.5, "1.0": 0.5}
SpelledTwice == Outcomes(<< <<1, Half>>, <<1, Half>> >>)
\* all three representations filled in
Mixed ==
    [ Fixed(2) EXCEPT !.YieldMin = FromInt(1), !.YieldMax = FromInt(3),
                      !.YieldOutcomes = << <<4, One>> >> ]
NegativeMin ==
    [ NoYield EXCEPT !.YieldMin = FromInt(-1), !.YieldMax = FromInt(2) ]

\* The yield fields of the records offered to the store
YieldSpecs ==
    { NoYield, Fixed(2), Fixed(0), Fixed(-1), Range(1, 3), Range(-2, -1),
      Example, SpelledTwice, Mixed, NegativeMin,
      \* the weights of the example written as percentages
      Outcomes(<< <<1, FromInt(70)>>, <<2, FromInt(20)>>,
                  <<3, FromInt(10)>> >>),
      \* one weight a fraction, one a percentage
      Outcomes(<< <<1, Half>>, <<2, FromInt(50)>> >>),
      \* all weights zero, alone and next to a fixed yield
      Outcomes(<< <<1, Zero>>, <<2, Zero>> >>),
      [ Fixed(5) EXCEPT !.YieldOutcomes = << <<1, Zero>>, <<2, Zero>> >> ],
      \* quantities that never occur at either end: {0: 0, 2: 1, 4: 0}
      Outcomes(<< <<0, Zero>>, <<2, One>>, <<4, Zero>> >>),
      \* a negative quantity: {"-1": 0.5}
      Outcomes(<< <<-1, Half>> >>),
      \* a fixed yield next to a range, and next to a maximum alone
      [ Fixed(2) EXCEPT !.YieldMin = FromInt(1), !.YieldMax = FromInt(3) ],
      [ Fixed(5) EXCEPT !.YieldMax = FromInt(0) ],
      \* a minimum alone
      [ NoYield EXCEPT !.YieldMin = FromInt(1) ],
      \* a range with the deprecated chance of its minimum, as a percentage
      [ Range(1, 3) EXCEPT !.YieldMinChance = FromInt(25) ] }

\* a record without ingredients, FocusCost 10, one second per craft
Plain(name, yspec) == RawRecipe(name, <<10>>, <<1>>, FALSE, yspec, << >>)

\* records that are dropped or replace one another within a file
FirstRecords ==
    { Plain("", Fixed(2)), Plain(Blank, Fixed(2)), Plain(A, Fixed(2)),
      Plain(B, Example) }

StoreRecords ==
    FirstRecords
      \cup { Plain(n, y) : n \in StoreNames, y \in YieldSpecs }
      \cup { RawRecipe(A, k[1], k[2], FALSE, Fixed(1), << >>) :
               k \in { << <<-1>>, <<1>> >>, << Null, Null >>,
                       << <<10>>, <<-1>> >> } }
      \cup { RawRecipe(A, <<10>>, <<1>>, TRUE, Fixed(1), i) :
               i \in { << <<B, 1>> >>, << <<B, 0>>, <<B, 1>> >>,
                       << <<"", 1>> >>, << <<B, -1>> >> } }

MaxRecords == 2
MaxStoreUnits == 2

RECURSIVE Prefixes(_)
\* the arrays of up to k of the first records
Prefixes(k) ==
    IF k = 0 THEN { << >> }
    ELSE Prefixes(k - 1)
           \cup { Append(p, r) : p \in Prefixes(k - 1), r \in FirstRecords }

\* The texts offered to Store.load: arrays of up to MaxRecords records,
\* objects keyed by name, and a text that is not JSON
Files ==
    { ArrayFile(<< >>), Unparsable,
      ObjectFile(<< <<A, Plain("", Example)>>, <<B, Plain(A, Fixed(2))>> >>),
      ObjectFile(<< <<"", Plain("", Fixed(2))>>, <<B, Plain("", Mixed)>> >>) }
      \cup { ArrayFile(Append(p, r)) :
               p \in Prefixes(MaxRecords - 1), r \in StoreRecords }

\* the yield type selected in the recipe form
YieldTypes == { "fixed", "range", "multi" }

FormOf(r, type) == [ type |-> type ] @@ r

\* The contents of the recipe form when Save is pressed
Forms ==
    { FormOf(r, t) :
        r \in { Plain(n, y) :
                  n \in StoreNames \cup {Blank},
                  y \in { NoYield, Mixed, SpelledTwice, NegativeMin } }
              \cup { RawRecipe(A, <<-1>>, <<-1>>, FALSE, Fixed(0),
                               << <<B, 0>>, <<B, 2>> >>) },
        t \in YieldTypes }

StoreUnits == 1..MaxStoreUnits

\* ------------------------------------------------------------------------
\* Inputs of the console program
\* ------------------------------------------------------------------------
\* names of recipes, one of them also spelled in another case, and a
\* material without recipe
Spellings == { "Ingot", "Ore", "ore", "Coal", "Flux" }
MaxIngredients == 2

\* the ingredient names of one recipe, in file order (the deserialized
\* dictionary compares ordinally, so both spellings of a name may occur)
IngredientLists ==
    { ings \in UNION { [1..k -> Spellings] : k \in 0..MaxIngredients } :
        \A i, j \in 1..Len(ings) : i # j => ings[i] # ings[j] }

ShortLists == { << >> } \cup { << a >> : a \in Spellings }

ConsoleRecipe(name, ings) == [ Name |-> name, Ingredients |-> ings ]

\* recipes.json: an empty array; Ingot alone; Ingot and Ore; a record
\* without a name; a name spelled twice; Ingot, Ore and Coal
RecipeFiles ==
    { << >> }
    \cup { << ConsoleRecipe("Ingot", i) >> : i \in IngredientLists }
    \cup { << ConsoleRecipe("Ingot", i), ConsoleRecipe("Ore", j) >> :
              i \in IngredientLists, j \in ShortLists }
    \cup { << ConsoleRecipe("Ingot", j), ConsoleRecipe(" ", << "Ingot" >>) >> :
              j \in ShortLists }
    \cup { << ConsoleRecipe("Ore", << "Coal" >>), ConsoleRecipe("Coal", j),
              ConsoleRecipe("ore", << >>) >> : j \in ShortLists }
    \cup { << ConsoleRecipe("Ingot", << a >>), ConsoleRecipe("Ore", << b >>),
              ConsoleRecipe("Coal", j) >> :
              a \in {"Ore", "Coal"}, b \in {"Coal", "Flux"},
              j \in ShortLists }

\* ------------------------------------------------------------------------
\* The calculator panel (src/app.js:1102-1114, 1390-1405, 1508-1583)
\* ------------------------------------------------------------------------
\* the names of the model in the order of localeCompare
NameOrder == << " ", "A", "B", "Burning Powder", "Charcoal", "Logs" >>

\* Object.keys(map).sort((a, b) => a.localeCompare(b))
allNames(m) == SelectSeq(NameOrder, LAMBDA n : n \in DOMAIN m)

\* updateMaterials(): the options are rebuilt and the first one is selected
updateMaterials(u, m) ==
    [u EXCEPT !.targetSelect = IF allNames(m) = << >> THEN ""
                               ELSE allNames(m)[1]]

\* Number(text) for the texts of the number inputs
Number(text) ==
    CASE text = "" -> 0
      [] text = "-1" -> -1
      [] text = "0" -> 0
      [] text = "1" -> 1
      [] text = "2" -> 2
      [] text = "16" -> 16
      [] text = "40" -> 40

\* Number(desiredQty.value || 1)
qtyOf(text) == IF text = "" THEN 1 ELSE Number(text)

\* Number(desiredQty.value || 1) || 1
exportQtyOf(text) == IF qtyOf(text) = 0 THEN 1 ELSE qtyOf(text)

NoRecipes == "Load or build recipes first."
NoTarget == "Pick a target material."
NoAvailable == "Enter available Focus."
NoQuantity == "Enter desired quantity (>= 0)."

\* showError(msg): the message is shown and the rendered output cleared;
\* state.lastLines and state.lastTotals stay as they are
showError(u, msg) == [u EXCEPT !.errors = msg]

\* the first exception of three engine runs, NoError when all returned
firstError(a, b, c) ==
    IF a.error # NoError THEN a.error
    ELSE IF b.error # NoError THEN b.error
    ELSE c.error

\* the branch of the Calculate handler for a desired quantity
calcDesired(m, s, u, target) ==
    With(qtyOf(u.desiredQty), LAMBDA qty :
      IF qty < 0 THEN showError(u, NoQuantity)
      ELSE
        With(<< calculateFocus(m, s, target, qty, Safe),
                calculateFocus(m, s, target, qty, Avg),
                calculateFocus(m, s, target, qty, Opt) >>,
             LAMBDA run :
          IF firstError(run[1], run[2], run[3]) # NoError
          THEN showError(u, firstError(run[1], run[2], run[3]))
          ELSE [u EXCEPT
                  !.lastLines = run[1].lines,
                  !.lastTotals =
                      [ focusSafe |-> run[1].totalFocus,
                        focusAvg |-> run[2].totalFocus,
                        focusOpt |-> run[3].totalFocus,
                        timeSafe |-> sumTimeSeconds(run[1].lines),
                        timeAvg |-> sumTimeSeconds(run[2].lines),
                        timeOpt |-> sumTimeSeconds(run[3].lines) ],
                  !.produced =
                      [ target |-> target, qty |-> qty,
                        totalFocus |-> run[1].totalFocus ]]))

\* the branch of the Calculate handler for "use all Focus"
calcAll(m, s, u, target) ==
    With(Number(u.availableFocusAll), LAMBDA available :
      IF available < 0 THEN showError(u, NoAvailable)
      ELSE
        With(<< maxCraftable(m, s, target, available, Safe),
                maxCraftable(m, s, target, available, Avg),
                maxCraftable(m, s, target, available, Opt) >>,
             LAMBDA best :
          IF firstError(best[1], best[2], best[3]) # NoError
          THEN showError(u, firstError(best[1], best[2], best[3]))
          ELSE
            With(<< calculateFocus(m, s, target, best[1].value, Safe),
                    calculateFocus(m, s, target, best[2].value, Avg),
                    calculateFocus(m, s, target, best[3].value, Opt) >>,
                 LAMBDA run :
              IF firstError(run[1], run[2], run[3]) # NoError
              THEN showError(u, firstError(run[1], run[2], run[3]))
              ELSE [u EXCEPT
                      !.lastLines = run[1].lines,
                      !.lastTotals =
                          [ bestQtySafe |-> best[1].value,
                            bestQtyAvg |-> best[2].value,
                            bestQtyOpt |-> best[3].value,
                            focusUsedSafe |-> run[1].totalFocus,
                            timeSafe |-> sumTimeSeconds(run[1].lines),
                            timeAvg |-> sumTimeSeconds(run[2].lines),
                            timeOpt |-> sumTimeSeconds(run[3].lines) ],
                      !.produced =
                          [ target |-> target, qty |-> best[1].value,
                            totalFocus |-> run[1].totalFocus ]])))

\* the click handler of btnCalc, hideError() done
btnCalc(m, s, u) ==
    IF Cardinality(DOMAIN m) = 0 THEN showError(u, NoRecipes)
    ELSE IF u.targetSelect = "" THEN showError(u, NoTarget)
    ELSE IF u.calcMode = "all" THEN calcAll(m, s, u, u.targetSelect)
    ELSE calcDesired(m, s, u, u.targetSelect)

\* state.lastTotals?.field, Null when there is none
totalsField(totals, field) ==
    IF field \in DOMAIN totals THEN << totals[field] >> ELSE Null

\* a ?? b on such fields
orElse(a, b) == IF a # Null THEN a ELSE b

\* the click handler of btnExportCsv: the arguments exportCsv writes the
\* file from, Null when the handler returns without a file
btnExportCsv(u) ==
    IF Len(u.lastLines) = 0 THEN Null
    ELSE [ target |-> u.targetSelect,
           qty |-> IF u.calcMode = "all"
                   THEN orElse(totalsField(u.lastTotals, "bestQtySafe"),
                               << 0 >>)[1]
                   ELSE exportQtyOf(u.desiredQty),
           lines |-> u.lastLines,
           totalFocus |->
               orElse(totalsField(u.lastTotals, "focusSafe"),
                      orElse(totalsField(u.lastTotals, "focusUsedSafe"),
                             << 0 >>))[1] ]

\* the texts typed into the number inputs, and stores for the panel: the
\* sample, and one whose target has an ingredient without recipe
QtyTexts == { "", "-1", "0", "1", "16" }
AvailableTexts == { "", "-1", "40" }
Dangling ==
    << RawRecipe(BP, <<20>>, <<5>>, FALSE, Fixed(15), << <<CH, 1>> >>) >>
PanelFiles == { ArrayFile(SAMPLE), ArrayFile(Dangling), ArrayFile(<< >>) }

\* ------------------------------------------------------------------------
\* State
\* ------------------------------------------------------------------------
VARIABLES
    map,        \* Store: name -> normalized recipe
    profile,    \* Profile: the saved state
    call,       \* the engine call whose result is held (op "none": no call)
    ret,        \* what that call returned or threw
    console,    \* the console program: _recipes, and whether its menu runs
    ui          \* the calculator panel: its inputs, state and last download

vars == << map, profile, call, ret, console, ui >>

NoCall == [op |-> "none", target |-> "", arg |-> 0, mode |-> ""]
NoRet == [error |-> NoError]

NotStarted == [recipes |-> << >>, menu |-> FALSE]

\* the panel on page load; produced is a history field: the target, the
\* quantity and the total of the calculation that set lastLines
PanelLoaded ==
    [ targetSelect |-> "",
      desiredQty |-> "1",
      calcMode |-> "qty",
      availableFocusAll |-> "",
      lastLines |-> << >>,
      lastTotals |-> Null,
      errors |-> NoError,
      download |-> Null,
      produced |-> Null ]

Init ==
    /\ map = load(SAMPLE)
    /\ profile = DefaultProfile
    /\ call = NoCall
    /\ ret = NoRet
    /\ console = NotStarted
    /\ ui = updateMaterials(PanelLoaded, load(SAMPLE))

\* Store.load(json) from the import panel; a text that does not parse
\* leaves the store as it is ("Invalid JSON")
Load(json) ==
    /\ call = NoCall
    /\ map' = loadJson(map, json).map
    /\ call' = [op |-> "load", target |-> "", arg |-> 0, mode |-> ""]
    /\ ret' = [error |-> loadJson(map, json).error, json |-> json]
    /\ profile' = profile
    /\ console' = console
    /\ ui' = IF loadJson(map, json).error = NoError
             THEN updateMaterials(ui, loadJson(map, json).map)
             ELSE ui

\* save(): Store.upsert(readForm(), selected) from the recipe form; old is
\* the recipe selected in the list, "" for a new one
Save(form, old) ==
    /\ call = NoCall
    /\ old = "" \/ old \in DOMAIN map
    /\ map' = upsert(map, readForm(form), old).map
    /\ call' = [op |-> "save", target |-> old, arg |-> 0, mode |-> ""]
    /\ ret' = [error |-> upsert(map, readForm(form), old).error,
               name |-> upsert(map, readForm(form), old).name,
               notified |-> upsert(map, readForm(form), old).notified,
               recipe |-> readForm(form)]
    /\ profile' = profile
    /\ console' = console
    /\ ui' = IF upsert(map, readForm(form), old).notified
             THEN updateMaterials(ui, upsert(map, readForm(form), old).map)
             ELSE ui

\* del(): Store.remove(selected)
Remove(name) ==
    /\ call = NoCall
    /\ name \in DOMAIN map
    /\ map' = remove(map, name)
    /\ call' = [op |-> "remove", target |-> name, arg |-> 0, mode |-> ""]
    /\ ret' = NoRet
    /\ profile' = profile
    /\ console' = console
    /\ ui' = updateMaterials(ui, remove(map, name))

\* Store.clear() from the import panel
Clear ==
    /\ call = NoCall
    /\ map' = clear(map)
    /\ call' = [op |-> "clear", target |-> "", arg |-> 0, mode |-> ""]
    /\ ret' = NoRet
    /\ profile' = profile
    /\ console' = console
    /\ ui' = updateMaterials(ui, clear(map))

\* effectiveYield(Store.get(name), mode)
CallEffectiveYield(name, mode) ==
    /\ call = NoCall
    /\ name \in DOMAIN map
    /\ call' = [op |-> "effectiveYield", target |-> name, arg |-> 0,
                mode |-> mode]
    /\ ret' = [error |-> NoError, value |-> effectiveYield(map[name], mode)]
    /\ UNCHANGED << map, profile >>
    /\ UNCHANGED << console, ui >>

\* Profile.set(s) from the profile panel
ProfileSet(s) ==
    /\ call = NoCall
    /\ profile' = s
    /\ UNCHANGED << map, call, ret >>
    /\ UNCHANGED << console, ui >>

CallCalculateFocus(target, unitsRequested, mode) ==
    /\ call = NoCall
    /\ call' = [op |-> "calculateFocus", target |-> target,
                arg |-> unitsRequested, mode |-> mode]
    /\ ret' = calculateFocus(map, profile, target, unitsRequested, mode)
    /\ UNCHANGED << map, profile >>
    /\ UNCHANGED << console, ui >>

\* Every number of a call with a budget beyond the hard ceiling stays below
\* 2^31: the target is a leaf with unit cost and a yield of at least 1.
Representable(m, s, target, mode) ==
    /\ target \in DOMAIN m
    /\ m[target].Ingredients = << >>
    /\ m[target].FocusCost \in {0, 1}
    /\ m[target].TimePerCraftSeconds \in {0, 1}
    /\ RLe(One, applyProfileYield(s, actionOf(m[target]),
                                  effectiveYield(m[target], mode)))

CallMaxCraftable(target, availableFocus, mode) ==
    /\ call = NoCall
    /\ availableFocus \in BeyondCeiling
          => Representable(map, profile, target, mode)
    /\ call' = [op |-> "maxCraftable", target |-> target,
                arg |-> availableFocus, mode |-> mode]
    /\ ret' = maxCraftable(map, profile, target, availableFocus, mode)
    /\ UNCHANGED << map, profile >>
    /\ UNCHANGED << console, ui >>

\* the leaf table rendered from the lines of a calculateFocus call, as the
\* Calculate handler does with state.lastLines; an error clears the table
CallRenderLeafChecklist(target, unitsRequested, mode) ==
    /\ call = NoCall
    /\ call' = [op |-> "renderLeafChecklist", target |-> target,
                arg |-> unitsRequested, mode |-> mode]
    /\ ret' = With(calculateFocus(map, profile, target, unitsRequested, mode),
                   LAMBDA res :
                 [ error |-> res.error,
                   errorName |-> res.errorName,
                   totalFocus |-> res.totalFocus,
                   lines |-> res.lines,
                   rows |-> IF res.error = NoError
                            THEN renderLeafChecklist(map, res.lines)
                            ELSE << >> ])
    /\ UNCHANGED << map, profile >>
    /\ UNCHANGED << console, ui >>

\* the caller has consumed the result
Return ==
    /\ call # NoCall
    /\ call' = NoCall
    /\ ret' = NoRet
    /\ UNCHANGED << map, profile >>
    /\ UNCHANGED << console, ui >>

Next ==
    \/ \E json \in RawFiles : Load(json)
    \/ \E s \in Profiles : ProfileSet(s)
    \/ \E t \in Names, u \in Units, mode \in YieldMode :
          CallCalculateFocus(t, u, mode)
    \/ \E t \in Names, b \in Budgets \cup BeyondCeiling, mode \in YieldMode :
          CallMaxCraftable(t, b, mode)
    \/ \E t \in Names, u \in Units, mode \in YieldMode :
          CallRenderLeafChecklist(t, u, mode)
    \/ Return

Spec == Init /\ [][Next]_vars

\* The recipe editor and the import panel, with the calls that read a stored
\* recipe back
StoreNext ==
    \/ \E json \in Files : Load(json)
    \/ \E form \in Forms, old \in StoreNames \cup {""} : Save(form, old)
    \/ \E name \in StoreNames : Remove(name)
    \/ Clear
    \/ \E name \in StoreNames, mode \in YieldMode :
          CallEffectiveYield(name, mode)
    \/ \E t \in StoreNames, u \in StoreUnits, mode \in YieldMode :
          CallCalculateFocus(t, u, mode)
    \/ Return

StoreSpec == Init /\ [][StoreNext]_vars

\* ---- the console program ----
\* Main: the recipes file is loaded and searched for a cycle; the menu starts
\* when the file loads and holds no cycle
Main(file) ==
    /\ call = NoCall
    /\ ~console.menu
    /\ LET loaded == LoadOrCreateRecipesJson(console.recipes, file)
           cycle == FindCycle(loaded.recipes)
       IN  IF loaded.error # NoError
           THEN /\ console' = NotStarted
                /\ call' = [op |-> "LoadOrCreateRecipesJson", target |-> "",
                            arg |-> 0, mode |-> ""]
                /\ ret' = [error |-> loaded.error]
           ELSE /\ console' = [recipes |-> loaded.recipes,
                               menu |-> cycle = Null]
                /\ call' = [op |-> "FindCycle", target |-> "", arg |-> 0,
                            mode |-> ""]
                /\ ret' = [error |-> NoError, cycle |-> cycle,
                           recipes |-> loaded.recipes]
    /\ UNCHANGED << map, profile, ui >>

\* menu 3: reload; a cycle is only warned about
Reload(file) ==
    /\ call = NoCall
    /\ console.menu
    /\ LET loaded == LoadOrCreateRecipesJson(console.recipes, file)
       IN  IF loaded.error # NoError
           THEN /\ console' = console
                /\ call' = [op |-> "LoadOrCreateRecipesJson", target |-> "",
                            arg |-> 0, mode |-> ""]
                /\ ret' = [error |-> loaded.error]
           ELSE /\ console' = [console EXCEPT !.recipes = loaded.recipes]
                /\ call' = [op |-> "FindCycle", target |-> "", arg |-> 0,
                            mode |-> ""]
                /\ ret' = [error |-> NoError,
                           cycle |-> FindCycle(loaded.recipes),
                           recipes |-> loaded.recipes]
    /\ UNCHANGED << map, profile, ui >>

\* menu 1: the target is a known material, as a key or as typed
RunCalculatorFlow(target) ==
    /\ call = NoCall
    /\ console.menu
    /\ TryGetValue(console.recipes, target) # 0
    /\ call' = [op |-> "CalculateFocus", target |-> target, arg |-> 0,
                mode |-> ""]
    /\ ret' = CalculateFocus(console.recipes, target)
    /\ UNCHANGED << map, profile, console, ui >>

\* menu Q, or the end of a Main that found a cycle: the process is gone
Quit ==
    /\ call = NoCall
    /\ console # NotStarted
    /\ console' = NotStarted
    /\ UNCHANGED << map, profile, call, ret, ui >>

ConsoleNext ==
    \/ \E file \in RecipeFiles : Main(file)
    \/ \E file \in RecipeFiles : Reload(file)
    \/ \E target \in Spellings : RunCalculatorFlow(target)
    \/ Quit
    \/ Return

ConsoleSpec == Init /\ [][ConsoleNext]_vars

\* ---- the calculator panel ----
\* An input that changes (its listener only refreshes the preview text) and
\* the two buttons; download is the file the step just taken handed out.
SelectTarget(name) ==
    /\ call = NoCall
    /\ name \in DOMAIN map
    /\ ui' = [ui EXCEPT !.targetSelect = name, !.download = Null]
    /\ UNCHANGED << map, profile, call, ret, console >>

EditQty(text) ==
    /\ call = NoCall
    /\ ui' = [ui EXCEPT !.desiredQty = text, !.download = Null]
    /\ UNCHANGED << map, profile, call, ret, console >>

EditAvailable(text) ==
    /\ call = NoCall
    /\ ui' = [ui EXCEPT !.availableFocusAll = text, !.download = Null]
    /\ UNCHANGED << map, profile, call, ret, console >>

SwitchMode(calcMode) ==
    /\ call = NoCall
    /\ ui' = [ui EXCEPT !.calcMode = calcMode, !.download = Null]
    /\ UNCHANGED << map, profile, call, ret, console >>

\* a click on Calculate
Calculate ==
    /\ call = NoCall
    /\ ui' = btnCalc(map, profile,
                     [ui EXCEPT !.errors = NoError, !.download = Null])
    /\ UNCHANGED << map, profile, call, ret, console >>

\* a click on Export CSV
ExportCsv ==
    /\ call = NoCall
    /\ ui' = [ui EXCEPT !.download = btnExportCsv(ui)]
    /\ UNCHANGED << map, profile, call, ret, console >>

PanelNext ==
    \/ \E json \in PanelFiles : Load(json)
    \/ \E name \in Names : SelectTarget(name)
    \/ \E text \in QtyTexts : EditQty(text)
    \/ \E text \in AvailableTexts : EditAvailable(text)
    \/ \E calcMode \in {"qty", "all"} : SwitchMode(calcMode)
    \/ Calculate
    \/ ExportCsv
    \/ Return

PanelSpec == Init /\ [][PanelNext]_vars

\* ------------------------------------------------------------------------
\* The recipe graph of a store
\* ------------------------------------------------------------------------
IngredientNames(m, n) ==
    IF n \in DOMAIN m
    THEN { m[n].Ingredients[i][1] : i \in 1..Len(m[n].Ingredients) }
    ELSE {}

RECURSIVE Closure(_, _, _)
Closure(m, S, k) ==
    IF k = 0 THEN S
    ELSE Closure(m, S \cup UNION { IngredientNames(m, n) : n \in S }, k - 1)

\* the names a traversal from t can meet, t included
ReachFrom(m, t) == Closure(m, {t}, Cardinality(Names))
\* the names met after at least one ingredient edge
ReachBelow(m, t) == Closure(m, IngredientNames(m, t), Cardinality(Names))
OnCycle(m, t) == t \in DOMAIN m /\ t \in ReachBelow(m, t)
AcyclicFrom(m, t) == \A n \in ReachFrom(m, t) : ~OnCycle(m, n)
AllKnown(m, t) == ReachFrom(m, t) \subseteq DOMAIN m
NonNegativeCosts(m, t) ==
    \A n \in ReachFrom(m, t) \cap DOMAIN m : m[n].FocusCost >= 0

\* the yield a node of recipe rec uses in a mode under the profile s
NodeYield(s, rec, mode) ==
    applyProfileYield(s, actionOf(rec), effectiveYield(rec, mode))

IsCalc == call.op = "calculateFocus"
IsMax == call.op = "maxCraftable"
\* the engine on the target and mode of the held call, for other quantities
FocusAt(q) == calculateFocus(map, profile, call.target, q, call.mode)

RECURSIVE SumFocusUsed(_)
SumFocusUsed(lines) ==
    IF lines = << >> THEN 0
    ELSE lines[1].FocusUsed + SumFocusUsed(Tail(lines))

\* ------------------------------------------------------------------------
\* Claims
\* ------------------------------------------------------------------------
\* how far the exhaustive scan over quantities goes
ScanMax == 16

\* the largest hi the doubling phase can reach: the first power of two
\* above the hard ceiling
LastHi == 2 ^ 30

C1_Applies ==
    /\ IsMax
    /\ ret.error = NoError
    /\ AcyclicFrom(map, call.target)
    /\ NonNegativeCosts(map, call.target)
    /\ FocusAt(1).error = NoError
    /\ FocusAt(1).totalFocus > 0

\* C1 (as amended): on an acyclic graph with non-negative focus costs, for a
\* target whose one-unit total Focus is > 0 and any budget >= 0, maxCraftable
\* returns the largest integer q with 0 <= q <= 2^30 such that
\* evaluate(target, q, mode).totalFocus <= budget: the value an exhaustive
\* linear scan over the quantities up to 2^30 finds.
C1_LargestUpToLastHi ==
    C1_Applies =>
        /\ ret.value \in 0..LastHi
        /\ FocusAt(ret.value).totalFocus <= call.arg
        /\ ret.value < LastHi => FocusAt(ret.value + 1).totalFocus > call.arg
        /\ \A q \in 0..ScanMax :
              (FocusAt(q).totalFocus <= call.arg) <=> (q <= ret.value)

\* C1 (as claimed): the quantity returned is the largest q >= 0 whatsoever
\* with evaluate(target, q, mode).totalFocus <= budget.
C1_LargestOfAll ==
    C1_Applies =>
        /\ FocusAt(ret.value).totalFocus <= call.arg
        /\ FocusAt(ret.value + 1).totalFocus > call.arg

\* C1 witness: a search over a chain that ends strictly inside the scan
C1_Witness ==
    /\ C1_Applies
    /\ map[call.target].Ingredients # << >>
    /\ call.arg > 0
    /\ ret.value > 1
    /\ ret.value < ScanMax

\* ---- C2 ----------------------------------------------------------------
\* scenario C: the three sample records, the default profile, a budget of 100
ScenarioC ==
    /\ IsMax
    /\ map = load(SAMPLE)
    /\ profile = DefaultProfile
    /\ call.target = BP
    /\ call.arg = 100
    /\ call.mode = Safe

\* C2 (as amended): in scenario C maxCraftable("Burning Powder", 100, Safe)
\* equals 75: one craft of Burning Powder costs 20 Focus and yields 15 units,
\* so the 5 crafts the budget pays for make 75 units.
C2_ScenarioC_Is75 ==
    ScenarioC => (ret.error = NoError /\ ret.value = 75)

\* C2 (as claimed): in scenario C maxCraftable("Burning Powder", 100, Safe)
\* equals 5.
C2_ScenarioC_Is5 ==
    ScenarioC => (ret.error = NoError /\ ret.value = 5)

\* C2 witness: scenario C has been computed; 75 units take the whole budget
\* in 5 crafts and the 76th unit needs a sixth craft
C2_Witness ==
    /\ ScenarioC
    /\ ret.error = NoError
    /\ FocusAt(ret.value).totalFocus = 100
    /\ FocusAt(ret.value).lines[1].Crafts = 5
    /\ FocusAt(ret.value + 1).totalFocus = 120

\* ---- C3 ----------------------------------------------------------------
\* every recipe the traversal from t can meet has a positive yield
PositiveYields(m, s, t, mode) ==
    \A n \in ReachFrom(m, t) \cap DOMAIN m : RLt(Zero, NodeYield(s, m[n], mode))

\* C3 (as amended): when the target lies on an ingredient cycle, evaluate
\* fails for every quantity q >= 0 and every mode and never returns a result;
\* the error is CycleDetected whenever every name reachable from the target
\* has a recipe and either q = 0 or every reachable recipe has a positive
\* yield (otherwise the traversal may meet an unknown or zero-yield node
\* before the cycle closes).
C3_CycleFails ==
    (IsCalc /\ OnCycle(map, call.target)) =>
        /\ ret.error # NoError
        /\ ret.lines = << >>
        /\ ( /\ AllKnown(map, call.target)
             /\ \/ call.arg = 0
                \/ PositiveYields(map, profile, call.target, call.mode) )
           => ret.error = CycleDetected

\* C3 (as claimed): when the target lies on an ingredient cycle, evaluate
\* fails with CycleDetected and never with a different error.
C3_AlwaysCycleDetected ==
    (IsCalc /\ OnCycle(map, call.target)) => ret.error = CycleDetected

\* C3 witness: quantity 0 on a cycle of two materials, detected back at the
\* target
C3_Witness ==
    /\ IsCalc
    /\ OnCycle(map, call.target)
    /\ call.arg = 0
    /\ ret.error = CycleDetected
    /\ ret.errorName = call.target
    /\ Len(ret.stack) >= 2

\* ---- C4 ----------------------------------------------------------------
NoDuplicates(seq) ==
    \A i, j \in 1..Len(seq) : i # j => seq[i] # seq[j]

\* the stack is a path of ingredient edges that starts at the target
IsPathFrom(m, t, seq) ==
    /\ seq # << >> => seq[1] = t
    /\ \A i \in 1..(Len(seq) - 1) : seq[i + 1] \in IngredientNames(m, seq[i])

\* C4: on an acyclic graph evaluate never fails with CycleDetected, diamonds
\* included; CycleDetected is raised exactly when the name reached is on the
\* in-progress stack: the error names a material of the stack that lies on a
\* cycle, no name is ever pushed while it is on the stack (every stack is a
\* duplicate-free path from the target), and a successful call ends with
\* every name popped.
C4_CycleOnlyOnStack ==
    IsCalc =>
        /\ AcyclicFrom(map, call.target) => ret.error # CycleDetected
        /\ ret.error = CycleDetected =>
              /\ includes(ret.stack, ret.errorName)
              /\ OnCycle(map, ret.errorName)
              /\ ret.errorName \in IngredientNames(map, ret.stack[Len(ret.stack)])
        /\ \A i \in 1..Len(ret.paths) :
              /\ NoDuplicates(ret.paths[i])
              /\ IsPathFrom(map, call.target, ret.paths[i])
        /\ ret.error = NoError => ret.stack = << >>

\* C4 witness: a successful call on a diamond: one material has two lines,
\* reached through two different parents
C4_Witness ==
    /\ IsCalc
    /\ ret.error = NoError
    /\ call.arg > 0
    /\ \E i, j \in 1..Len(ret.lines) :
          /\ i < j
          /\ ret.lines[i].Material = ret.lines[j].Material
          /\ ret.lines[i].Level # ret.lines[j].Level

\* ---- C5 ----------------------------------------------------------------
\* C5: on an acyclic graph in the store whose focus costs are non-negative,
\* for all quantities q1 < q2 for which evaluate(target, q2, mode) succeeds,
\* evaluate(target, q1, mode) succeeds as well and its totalFocus is at most
\* that of q2.
C5_Monotone ==
    ( /\ IsCalc
      /\ ret.error = NoError
      /\ AcyclicFrom(map, call.target)
      /\ NonNegativeCosts(map, call.target) ) =>
        \A q1 \in 0..(call.arg - 1) :
            /\ FocusAt(q1).error = NoError
            /\ FocusAt(q1).totalFocus <= ret.totalFocus

\* C5 witness: a chain of three lines whose total grows strictly from one
\* unit to the requested quantity
C5_Witness ==
    /\ IsCalc
    /\ ret.error = NoError
    /\ NonNegativeCosts(map, call.target)
    /\ call.arg >= 2
    /\ Len(ret.lines) >= 3
    /\ FocusAt(1).totalFocus > 0
    /\ FocusAt(1).totalFocus < ret.totalFocus

\* ---- C6 ----------------------------------------------------------------
\* C6: every recipe the store holds after normalization has
\* effectiveYield(Safe) <= effectiveYield(Average) <= effectiveYield(Optimistic).
C6_YieldOrdering ==
    \A n \in DOMAIN map :
        /\ RLe(effectiveYield(map[n], Safe), effectiveYield(map[n], Avg))
        /\ RLe(effectiveYield(map[n], Avg), effectiveYield(map[n], Opt))

\* ---- C7 ----------------------------------------------------------------
\* the engine on the target and quantity of the held call, in another mode
FocusIn(mode) == calculateFocus(map, profile, call.target, call.arg, mode)

\* C7: on an acyclic graph (here: with non-negative focus costs), for a target
\* and quantity for which evaluate succeeds in all three modes, totalFocus
\* under Safe >= under Average >= under Optimistic.
C7_FocusOrdering ==
    ( /\ IsCalc
      /\ AcyclicFrom(map, call.target)
      /\ NonNegativeCosts(map, call.target)
      /\ \A mode \in YieldMode : FocusIn(mode).error = NoError ) =>
        /\ FocusIn(Safe).totalFocus >= FocusIn(Avg).totalFocus
        /\ FocusIn(Avg).totalFocus >= FocusIn(Opt).totalFocus

\* ---- C8 ----------------------------------------------------------------
\* the action and the seconds of one line, from the recipe of its material
LineAction(l) == actionOf(map[l.Material])
LineSeconds(l) ==
    l.Crafts * effectiveTimePerCraft(profile, map[l.Material], LineAction(l))

RECURSIVE SumLineSeconds(_)
SumLineSeconds(lines) ==
    IF lines = << >> THEN 0
    ELSE LineSeconds(lines[1]) + SumLineSeconds(Tail(lines))

\* C8: for a successful evaluate, totalFocus is the sum of FocusUsed over all
\* returned lines, each line's FocusUsed being the node's own crafts x focus
\* cost; and the total time is the plain sum of TimeUsedSeconds over all
\* returned lines, each line carrying only its own crafts x seconds per craft.
C8_TotalsAreSums ==
    (IsCalc /\ ret.error = NoError) =>
        /\ ret.totalFocus = SumFocusUsed(ret.lines)
        /\ \A i \in 1..Len(ret.lines) :
              /\ ret.lines[i].FocusUsed =
                    ret.lines[i].Crafts * map[ret.lines[i].Material].FocusCost
              /\ ret.lines[i].TimeUsedSeconds = LineSeconds(ret.lines[i])
        /\ sumTimeSeconds(ret.lines) = SumLineSeconds(ret.lines)

\* C8 witness: three or more lines, the descendants adding both Focus and
\* seconds to those of the target's own line
C8_Witness ==
    /\ IsCalc
    /\ ret.error = NoError
    /\ Len(ret.lines) >= 3
    /\ ret.lines[1].FocusUsed > 0
    /\ ret.totalFocus > ret.lines[1].FocusUsed
    /\ ret.lines[1].TimeUsedSeconds > 0
    /\ sumTimeSeconds(ret.lines) > ret.lines[1].TimeUsedSeconds

\* ---- C9 ----------------------------------------------------------------
\* C9 (as amended): whenever a node is visited with unitsRequested > 0 and
\* its effective yield in the current mode, after the profile's yield bonuses
\* are applied, is <= 0, evaluate fails with ZeroEffectiveYield naming that
\* material and returns no lines or total; with unitsRequested = 0 a
\* zero-yield node is no error and produces a line with crafts = 0.
C9_ZeroYieldAfterProfile ==
    IsCalc =>
        /\ ret.error = ZeroEffectiveYield =>
              /\ ret.errorUnits > 0
              /\ ret.errorName \in DOMAIN map
              /\ RLe(NodeYield(profile, map[ret.errorName], call.mode), Zero)
              /\ ret.stack[Len(ret.stack)] = ret.errorName
              /\ ret.lines = << >>
              /\ ret.totalFocus = 0
        /\ \A i \in 1..Len(ret.visited) :
              LET l == ret.visited[i]
              IN  /\ l.Yield = NodeYield(profile, map[l.Material], call.mode)
                  /\ l.UnitsRequested > 0 => RLt(Zero, l.Yield)
                  /\ l.UnitsRequested = 0 => l.Crafts = 0

\* C9 (as claimed): no node with unitsRequested > 0 whose effectiveYield in
\* the current mode is <= 0 gets a line: evaluate fails at it.
C9_ZeroYieldOfRecipe ==
    IsCalc =>
        \A i \in 1..Len(ret.visited) :
            LET l == ret.visited[i]
            IN  l.UnitsRequested > 0 =>
                    RLt(Zero, effectiveYield(map[l.Material], call.mode))

\* C9 witness: a failure at a zero-yield ingredient below the target, after
\* the target's own line, where a request of 0 units gives that ingredient a
\* line with crafts = 0
C9_Witness ==
    /\ IsCalc
    /\ ret.error = ZeroEffectiveYield
    /\ ret.errorName # call.target
    /\ ret.errorUnits > 0
    /\ Len(ret.visited) >= 1
    /\ FocusAt(0).error = NoError
    /\ \E i \in 1..Len(FocusAt(0).lines) :
          /\ FocusAt(0).lines[i].Yield = Zero
          /\ FocusAt(0).lines[i].Crafts = 0

\* ---- C10 ---------------------------------------------------------------
\* C10: evaluate fails with UnknownMaterial(name) exactly when the traversal
\* reaches a name without recipe: the name of the error has no recipe and is
\* reachable from the target; a call that succeeds has met only names with a
\* recipe, whatever the demand; and when every name reachable from the target
\* has a recipe the error never occurs, whatever dangles elsewhere in the
\* store.  The other errors name materials that have a recipe.
C10_UnknownMaterial ==
    IsCalc =>
        /\ ret.error = UnknownMaterial =>
              /\ ret.errorName \notin DOMAIN map
              /\ ret.errorName \in ReachFrom(map, call.target)
              /\ ret.lines = << >>
        /\ ret.error = NoError => AllKnown(map, call.target)
        /\ AllKnown(map, call.target) => ret.error # UnknownMaterial
        /\ ret.error \in {CycleDetected, ZeroEffectiveYield} =>
              ret.errorName \in DOMAIN map

\* C10 witness: an ingredient without recipe met with a demand of 0
C10_Witness ==
    /\ IsCalc
    /\ ret.error = UnknownMaterial
    /\ ret.errorName # call.target
    /\ ret.errorUnits = 0
    /\ call.arg = 0

\* ---- C11 ---------------------------------------------------------------
\* C11: maxCraftable fails with the error of the evaluate call that fails:
\* when evaluate(target, 1, mode) fails, maxCraftable fails with that error
\* and that name after this one call and returns no quantity; a call that
\* fails at all fails there (every later quantity is >= 1 and meets the same
\* nodes with a positive demand); and when maxCraftable succeeds, evaluate
\* succeeds on the quantity returned and on every quantity of the scan.
C11_ErrorsPropagate ==
    IsMax =>
        /\ FocusAt(1).error # NoError =>
              /\ ret.error = FocusAt(1).error
              /\ ret.errorName = FocusAt(1).errorName
              /\ ret.calls = 1
              /\ ret.value = 0
        /\ ret.error # NoError =>
              /\ ret.error \in {UnknownMaterial, CycleDetected, ZeroEffectiveYield}
              /\ ret.error = FocusAt(1).error
        /\ ret.error = NoError =>
              /\ FocusAt(ret.value).error = NoError
              /\ \A q \in 0..ScanMax : FocusAt(q).error = NoError

\* C11 witness: a positive budget, a target whose own line is fine and an
\* ingredient below it that makes evaluate fail
C11_Witness ==
    /\ IsMax
    /\ call.arg > 0
    /\ ret.error = ZeroEffectiveYield
    /\ ret.errorName # call.target
    /\ FocusAt(0).error = NoError

\* ---- C12 ---------------------------------------------------------------
\* evaluate(target, 1, mode) succeeds with a total Focus <= 0
FreeChain == FocusAt(1).error = NoError /\ FocusAt(1).totalFocus <= 0

\* C12: when one unit costs <= 0 Focus, maxCraftable returns the sentinel 0
\* for every budget, and the one-unit call is the only evaluate call made.
C12_FreeChainIsZero ==
    (IsMax /\ FreeChain) =>
        /\ ret.error = NoError
        /\ ret.value = 0
        /\ ret.calls = 1

\* C12 witness: a free chain of at least two lines and a budget that would
\* pay for any quantity
C12_Witness ==
    /\ IsMax
    /\ FreeChain
    /\ Len(FocusAt(1).lines) >= 2
    /\ call.arg = 100
    /\ ret.value = 0
    /\ FocusAt(ScanMax).totalFocus <= call.arg

\* ---- C13 ---------------------------------------------------------------
IsRender == call.op = "renderLeafChecklist"

RECURSIVE SumRowFocus(_)
SumRowFocus(rows) ==
    IF rows = << >> THEN 0 ELSE rows[1].focus + SumRowFocus(Tail(rows))

RECURSIVE SumLeafFocusUsed(_, _)
\* the summed FocusUsed of the lines of leaf materials: totalFocus minus
\* the FocusUsed of all non-leaf lines
SumLeafFocusUsed(m, lines) ==
    IF lines = << >> THEN 0
    ELSE (IF isLeaf(m, lines[1].Material) THEN lines[1].FocusUsed ELSE 0)
         + SumLeafFocusUsed(m, Tail(lines))

\* C13: for an acyclic graph, target and quantity for which evaluate succeeds
\* in Safe mode, the summed focus of the rows of the leaf checklist does not
\* exceed the summed FocusUsed of the leaf lines.
C13_RowsWithinLeafLines ==
    ( /\ IsRender
      /\ call.mode = Safe
      /\ ret.error = NoError
      /\ AcyclicFrom(map, call.target) ) =>
        SumRowFocus(ret.rows) <= SumLeafFocusUsed(map, ret.lines)

\* ---- C14 ---------------------------------------------------------------
LeafMaterials(m, lines) ==
    { lines[i].Material : i \in { j \in 1..Len(lines) :
                                    isLeaf(m, lines[j].Material) } }

RECURSIVE UnitsOf(_, _)
\* the summed UnitsRequested of the lines of one material
UnitsOf(lines, name) ==
    IF lines = << >> THEN 0
    ELSE (IF lines[1].Material = name THEN lines[1].UnitsRequested ELSE 0)
         + UnitsOf(Tail(lines), name)

RECURSIVE CraftsOfLines(_, _)
\* the summed Crafts of the lines of one material
CraftsOfLines(lines, name) ==
    IF lines = << >> THEN 0
    ELSE (IF lines[1].Material = name THEN lines[1].Crafts ELSE 0)
         + CraftsOfLines(Tail(lines), name)

\* C14: the leaf checklist has exactly one row per distinct leaf material of
\* the lines and none for a material with ingredients; a row's units is the
\* sum of UnitsRequested over the lines of its material, its crafts is
\* ceil(units / max(1, yield)) on that total and its focus is crafts x
\* FocusCost.
C14_OneRowPerLeaf ==
    (IsRender /\ ret.error = NoError) =>
        /\ { ret.rows[i].name : i \in 1..Len(ret.rows) }
              = LeafMaterials(map, ret.lines)
        /\ Len(ret.rows) = Cardinality(LeafMaterials(map, ret.lines))
        /\ \A i \in 1..Len(ret.rows) :
              LET r == ret.rows[i]
              IN  /\ r.units = UnitsOf(ret.lines, r.name)
                  /\ r.crafts =
                        CeilDiv(r.units,
                                RMax(One, NodeYield(profile, map[r.name],
                                                    call.mode)))
                  /\ r.focus = r.crafts * map[r.name].FocusCost

\* C14 witness: a leaf reached through two parents, whose row needs fewer
\* crafts on the combined units than its two lines together, next to a
\* material with ingredients that has no row
C14_Witness ==
    /\ IsRender
    /\ ret.error = NoError
    /\ Len(ret.lines) > Len(ret.rows) + 1
    /\ \E i \in 1..Len(ret.rows) :
          /\ ret.rows[i].units > 0
          /\ ret.rows[i].crafts < CraftsOfLines(ret.lines, ret.rows[i].name)

\* ------------------------------------------------------------------------
\* C15
\* ------------------------------------------------------------------------
IsEffectiveYield == call.op = "effectiveYield"

Quantities(pairs) == { pairs[i][1] : i \in 1..Len(pairs) }

RECURSIVE SumQP(_)
\* the sum of quantity x weight over the outcomes
SumQP(pairs) ==
    IF pairs = << >> THEN Zero
    ELSE RAdd(RMul(FromInt(pairs[1][1]), pairs[1][2]), SumQP(Tail(pairs)))

\* the stored form of the distribution {1: 0.7, 2: 0.2, 3: 0.1}
ExampleStored == << <<1, Rat(7, 10)>>, <<2, Rat(1, 5)>>, <<3, Rat(1, 10)>> >>

\* a stored recipe with that distribution, FocusCost 10 and no ingredients
IsExample(rec) ==
    /\ rec.YieldOutcomes = ExampleStored
    /\ rec.FocusCost = 10
    /\ rec.Ingredients = << >>

\* C15: for a stored recipe with a non-empty outcome distribution,
\* effectiveYield is the smallest quantity in Safe mode, the largest in
\* Optimistic mode and the probability-weighted mean in Average mode; with
\* outcomes {1: 0.7, 2: 0.2, 3: 0.1}, FocusCost 10 and no ingredients, 1 unit
\* costs 10 focus in all three modes, 2 units cost 20 in Safe and 10 in
\* Optimistic mode.
C15_OutcomeYield ==
    /\ (IsEffectiveYield /\ map[call.target].YieldOutcomes # Null) =>
          LET pairs == map[call.target].YieldOutcomes
              qs == Quantities(pairs)
          IN  /\ call.mode = Safe =>
                    \E q \in qs : /\ \A x \in qs : q <= x
                                  /\ ret.value = FromInt(q)
              /\ call.mode = Opt =>
                    \E q \in qs : /\ \A x \in qs : q >= x
                                  /\ ret.value = FromInt(q)
              /\ call.mode = Avg =>
                    ret.value = RDiv(SumQP(pairs), SumP(pairs))
    /\ (/\ call.op = "calculateFocus"
        /\ call.target \in DOMAIN map
        /\ IsExample(map[call.target])) =>
          /\ ret.error = NoError
          /\ call.arg = 1 => ret.totalFocus = 10
          /\ (call.arg = 2 /\ call.mode = Safe) => ret.totalFocus = 20
          /\ (call.arg = 2 /\ call.mode = Opt) => ret.totalFocus = 10

\* the average yield of the example distribution is 1.4
C15_Witness ==
    /\ IsEffectiveYield
    /\ call.mode = Avg
    /\ IsExample(map[call.target])
    /\ ret.value = Rat(7, 5)

\* ------------------------------------------------------------------------
\* C16
\* ------------------------------------------------------------------------
\* C16: effectiveYield of a stored recipe resolves in a fixed order: a
\* non-empty outcome map decides alone; otherwise the range, when a minimum
\* or a maximum is present (Safe the minimum, Optimistic the maximum,
\* Average a value between them, the midpoint without chances); otherwise
\* the fixed yield, the same in every mode and 1 when the recipe has no
\* yield data; the result is never negative.
C16_ResolutionOrder ==
    IsEffectiveYield =>
        LET rec == map[call.target]
            pairs == rec.YieldOutcomes
            qs == Quantities(pairs)
        IN  /\ RLe(Zero, ret.value)
            /\ IF pairs # Null
               THEN /\ call.mode = Safe =>
                          /\ \E q \in qs : ret.value = FromInt(q)
                          /\ \A q \in qs : RLe(ret.value, FromInt(q))
                    /\ call.mode = Opt =>
                          /\ \E q \in qs : ret.value = FromInt(q)
                          /\ \A q \in qs : RLe(FromInt(q), ret.value)
                    /\ call.mode = Avg =>
                          ret.value = RDiv(SumQP(pairs), SumP(pairs))
               ELSE IF rec.YieldMin # Null \/ rec.YieldMax # Null
               THEN /\ call.mode = Safe => ret.value = rec.YieldMin
                    /\ call.mode = Opt => ret.value = rec.YieldMax
                    /\ call.mode = Avg =>
                          /\ RLe(RMin(rec.YieldMin, rec.YieldMax), ret.value)
                          /\ RLe(ret.value, RMax(rec.YieldMin, rec.YieldMax))
                          /\ (rec.YieldMinChance = Null
                                /\ rec.YieldMaxChance = Null) =>
                                ret.value = RDiv(RAdd(rec.YieldMin,
                                                      rec.YieldMax),
                                                 FromInt(2))
               ELSE ret.value = (IF rec.Yield = Null THEN One ELSE rec.Yield)

\* a recipe stored with a fixed yield 2, a range 1..3 and the outcome 4
\* yields 4
C16_Witness ==
    /\ IsEffectiveYield
    /\ call.mode = Safe
    /\ map[call.target].Yield = FromInt(2)
    /\ map[call.target].YieldMin = FromInt(1)
    /\ map[call.target].YieldOutcomes = << <<4, One>> >>
    /\ ret.value = FromInt(4)

\* ------------------------------------------------------------------------
\* C17
\* ------------------------------------------------------------------------
\* the yield representations a stored recipe has set
Representations(rec) ==
    { k \in { "fixed", "range", "outcomes" } :
        \/ k = "fixed" /\ rec.Yield # Null
        \/ k = "range" /\ (rec.YieldMin # Null \/ rec.YieldMax # Null)
        \/ k = "outcomes" /\ rec.YieldOutcomes # Null }

\* C17: after any sequence of load, upsert, remove and clear, every stored
\* recipe has at most one yield representation set: a fixed yield, a range
\* and an outcome map exclude one another.
C17_OneRepresentation ==
    \A n \in DOMAIN map : Cardinality(Representations(map[n])) <= 1

\* ------------------------------------------------------------------------
\* C18
\* ------------------------------------------------------------------------
\* C18: after any sequence of load, upsert, remove and clear with arbitrary
\* inputs, every stored recipe has a non-empty name, a focus cost >= 0, a
\* time per craft >= 0, a fixed yield > 0 when one is set, a range minimum
\* and maximum >= 0 that are both set or both null, and only ingredient
\* quantities > 0.
C18_DataModelBounds ==
    \A n \in DOMAIN map :
        LET rec == map[n]
        IN  /\ rec.Name # ""
            /\ rec.FocusCost >= 0
            /\ rec.TimePerCraftSeconds >= 0
            /\ rec.Yield # Null => RLt(Zero, rec.Yield)
            /\ (rec.YieldMin = Null) <=> (rec.YieldMax = Null)
            /\ rec.YieldMin # Null => RLe(Zero, rec.YieldMin)
            /\ rec.YieldMax # Null => RLe(Zero, rec.YieldMax)
            /\ \A i \in 1..Len(rec.Ingredients) : rec.Ingredients[i][2] > 0

\* ------------------------------------------------------------------------
\* C19
\* ------------------------------------------------------------------------
\* a successful Store.load of an array of records has just happened
IsArrayLoad ==
    /\ call.op = "load"
    /\ ret.error = NoError
    /\ ret.json.format = "array"

\* the records of the array that are stored: named, and the last of their name
StoredFrom(records) ==
    { i \in 1..Len(records) :
        /\ Trim(records[i].Name) # ""
        /\ \A j \in (i + 1)..Len(records) :
              Trim(records[j].Name) # Trim(records[i].Name) }

HasPositiveWeight(obj) == \E i \in 1..Len(obj) : RLt(Zero, obj[i][2])

\* C19: for every record loaded, an outcome map with at least one positive
\* weight is stored with weights that sum to 1 (a weight above 1 is read as
\* a percentage), and an empty or all-zero outcome map is discarded, so that
\* the recipe evaluates as a fixed yield of 1 in every mode.
C19_OutcomesNormalized ==
    IsArrayLoad =>
        \A i \in StoredFrom(ret.json.records) :
            LET r == ret.json.records[i]
                rec == map[Trim(r.Name)]
            IN  IF HasPositiveWeight(r.YieldOutcomes)
                THEN /\ rec.YieldOutcomes # Null
                     /\ SumP(rec.YieldOutcomes) = One
                ELSE /\ rec.YieldOutcomes = Null
                     /\ \A mode \in YieldMode :
                           effectiveYield(rec, mode) = One

\* ------------------------------------------------------------------------
\* C20
\* ------------------------------------------------------------------------
\* the records of a file in order, each with the name it is stored under
NamedRecords(json) ==
    IF json.format = "array"
    THEN [i \in 1..Len(json.records) |->
            [ name |-> Trim(json.records[i].Name), record |-> json.records[i] ]]
    ELSE [i \in 1..Len(json.entries) |->
            LET key == json.entries[i][1]
                r == json.entries[i][2]
                name == IF r.Name # "" THEN r.Name ELSE key
            IN  [ name |-> Trim(name), record |-> [r EXCEPT !.Name = name] ]]

\* m holds exactly the normalized records of the file that have a name, the
\* last record of a name standing for it
HoldsExactly(m, json) ==
    LET recs == NamedRecords(json)
    IN  /\ DOMAIN m = { recs[i].name : i \in 1..Len(recs) } \ { "" }
        /\ \A n \in DOMAIN m :
              \E i \in 1..Len(recs) :
                  /\ recs[i].name = n
                  /\ \A j \in (i + 1)..Len(recs) : recs[j].name # n
                  /\ m[n] = normalizeRecipe(recs[i].record)

\* C20: load replaces the store as a whole: after a successful load the
\* store holds exactly the normalized records of the file that have a
\* non-empty name (nothing from before survives, records without a name
\* are dropped without failing); when load fails on input that does not
\* parse, the store is unchanged.
C20_LoadReplaces ==
    /\ []((call.op = "load" /\ ret.error = NoError)
             => HoldsExactly(map, ret.json))
    /\ [][(call'.op = "load" /\ ret'.error # NoError) => map' = map]_vars

\* a file with a nameless record and the record A has been loaded, and
\* nothing of the sample is left
C20_Witness ==
    /\ call.op = "load"
    /\ ret.error = NoError
    /\ ret.json.format = "array"
    /\ Len(ret.json.records) = 2
    /\ ret.json.records[1].Name = ""
    /\ DOMAIN map = {A}

\* ------------------------------------------------------------------------
\* C21
\* ------------------------------------------------------------------------
\* this step is a save() whose Store.upsert returned a name
UpsertReturns == call'.op = "save" /\ ret'.error = NoError

\* C21: after upsert(recipe, oldName) returns name, get(name) is the
\* normalized recipe; if oldName was given and differs from name, oldName
\* is absent; every store entry under another name is unchanged.
C21_UpsertFrame ==
    [][UpsertReturns =>
          LET name == ret'.name
              oldName == call'.target
          IN  /\ name \in DOMAIN map'
              /\ get(map', name) = normalizeRecipe(ret'.recipe)
              /\ (oldName # "" /\ oldName # name) => oldName \notin DOMAIN map'
              /\ \A n \in (DOMAIN map \cup DOMAIN map') \ {name, oldName} :
                    /\ n \in DOMAIN map
                    /\ n \in DOMAIN map'
                    /\ map'[n] = map[n]]_vars

\* the selected recipe A has been saved under the name B: A is gone, B is
\* stored, the sample is still there
C21_Witness ==
    /\ call.op = "save"
    /\ ret.error = NoError
    /\ call.target = A
    /\ ret.name = B
    /\ A \notin DOMAIN map
    /\ B \in DOMAIN map
    /\ BP \in DOMAIN map

\* ------------------------------------------------------------------------
\* C22
\* ------------------------------------------------------------------------
\* C22: upsert of a recipe whose name is missing, empty or only whitespace
\* fails with the error "Recipe must have a Name."; on that failure the
\* store is unchanged (the entry of oldName is not deleted) and the
\* subscribers are not notified.
C22_NamelessUpsertFails ==
    [][(call'.op = "save" /\ Trim(ret'.recipe.Name) = "") =>
          /\ ret'.error = MissingName
          /\ map' = map
          /\ ~ret'.notified]_vars

\* the form was saved with a blank name while A was selected: the save
\* failed and A is still stored
C22_Witness ==
    /\ call.op = "save"
    /\ ret.error = MissingName
    /\ call.target = A
    /\ A \in DOMAIN map
    /\ ~ret.notified

\* ------------------------------------------------------------------------
\* C23
\* ------------------------------------------------------------------------
\* C23: evaluate is a pure function of its graph and inputs: any two calls
\* with the same store content, target, unitsRequested and mode return the
\* same totalFocus and the same lines, whatever was called in between. The
\* store content and the inputs of the held call are those of the same call
\* made before any profile was set, so the two results must agree.
C23_FunctionOfGraphAndInputs ==
    (IsCalc /\ ret.error = NoError) =>
        LET first == calculateFocus(map, DefaultProfile, call.target,
                                    call.arg, call.mode)
        IN  /\ first.error = NoError
            /\ ret.totalFocus = first.totalFocus
            /\ ret.lines = first.lines

\* ------------------------------------------------------------------------
\* C24
\* ------------------------------------------------------------------------
\* c is ceil(units / y) for a divisor y > 0
IsCeilOf(c, units, y) ==
    /\ RLe(FromInt(units), RMul(FromInt(c), y))
    /\ RLt(RMul(FromInt(c - 1), y), FromInt(units))

\* the line of the parent visit of line i: the nearest line before it one
\* level up
ParentLine(lines, i) ==
    CHOOSE j \in 1..(i - 1) :
        /\ lines[j].Level = lines[i].Level - 1
        /\ \A k \in (j + 1)..(i - 1) : lines[k].Level >= lines[i].Level

\* the quantity of ingredient name per craft of rec
PerCraftQty(rec, name) ==
    LET k == CHOOSE k \in 1..Len(rec.Ingredients) :
                 rec.Ingredients[k][1] = name
    IN  rec.Ingredients[k][2]

\* every ingredient line asks for perCraftQty x the crafts of its parent
DemandFromParent(lines) ==
    \A i \in 1..Len(lines) :
        lines[i].Level > 0 =>
            LET parent == lines[ParentLine(lines, i)]
            IN  lines[i].UnitsRequested =
                    PerCraftQty(map[parent.Material], lines[i].Material)
                      * parent.Crafts

\* the call of the example: 1 unit of Burning Powder on the sample
IsSampleCall ==
    /\ IsCalc
    /\ map = load(SAMPLE)
    /\ call.target = BP
    /\ call.arg = 1

\* crafts 1, 1 and 28 and a total of 20
SampleOutcome ==
    /\ ret.error = NoError
    /\ Len(ret.lines) = 3
    /\ ret.lines[1].Crafts = 1
    /\ ret.lines[2].Crafts = 1
    /\ ret.lines[3].Crafts = 28
    /\ ret.totalFocus = 20

\* C24 (as amended): every line emitted by evaluate satisfies
\* crafts = ceil(unitsRequested / max(y, epsilon)), where y is the effective
\* yield of the recipe in the mode after the profile's yield bonuses,
\* focusUsed = crafts x focusCost of the recipe, and
\* timeUsedSeconds = crafts x the effective time per craft (the recipe's
\* timePerCraftSeconds, not below 0, capped by the profile's fast-craft
\* limit for crafted recipes); each ingredient is visited with
\* demand = perCraftQty x crafts of its parent; with the default profile
\* 1 unit of Burning Powder on the sample gives crafts 1, 1 and 28 and
\* totalFocus 20 in every mode.
C24_LineArithmetic ==
    /\ (IsCalc /\ ret.error = NoError) =>
          /\ \A i \in 1..Len(ret.lines) :
                LET line == ret.lines[i]
                    rec == map[line.Material]
                    y == applyProfileYield(profile, actionOf(rec),
                                           effectiveYield(rec, call.mode))
                IN  /\ IsCeilOf(line.Crafts, line.UnitsRequested,
                                RMax(y, Epsilon))
                    /\ line.FocusUsed = line.Crafts * rec.FocusCost
                    /\ line.TimeUsedSeconds =
                          line.Crafts
                            * effectiveTimePerCraft(profile, rec, actionOf(rec))
          /\ DemandFromParent(ret.lines)
    /\ (IsSampleCall /\ profile = DefaultProfile) => SampleOutcome

\* C24 (as stated): crafts from the effective yield of the recipe, time from
\* the timePerCraftSeconds of the recipe, and the example whatever the
\* profile.
C24_LineArithmeticOfRecipe ==
    /\ (IsCalc /\ ret.error = NoError) =>
          /\ \A i \in 1..Len(ret.lines) :
                LET line == ret.lines[i]
                    rec == map[line.Material]
                    y == effectiveYield(rec, call.mode)
                IN  /\ IsCeilOf(line.Crafts, line.UnitsRequested,
                                RMax(y, Epsilon))
                    /\ line.FocusUsed = line.Crafts * rec.FocusCost
                    /\ line.TimeUsedSeconds =
                          line.Crafts * rec.TimePerCraftSeconds
          /\ DemandFromParent(ret.lines)
    /\ IsSampleCall => SampleOutcome

\* the example in Optimistic mode
C24_Witness ==
    /\ IsSampleCall
    /\ profile = DefaultProfile
    /\ call.mode = Opt
    /\ SampleOutcome

\* ------------------------------------------------------------------------
\* C25
\* ------------------------------------------------------------------------
\* the lines whose parent visit is line j, in order
RECURSIVE ChildMaterials(_, _, _)
ChildMaterials(lines, j, i) ==
    IF i > Len(lines) THEN << >>
    ELSE IF lines[i].Level <= lines[j].Level THEN << >>
    ELSE IF lines[i].Level = lines[j].Level + 1
    THEN << lines[i].Material >> \o ChildMaterials(lines, j, i + 1)
    ELSE ChildMaterials(lines, j, i + 1)

\* C25: the lines returned by evaluate are in pre-order of the traversal,
\* one line per node visit: the first line is the target at level 0, every
\* line at level k > 0 is preceded by the line of its parent at level k - 1
\* with no line of a level below k in between, and a material reached along
\* several paths has one line per path (the lines below a line are those
\* of its recipe's ingredients, one each, in order).
C25_PreOrder ==
    (IsCalc /\ ret.error = NoError) =>
        LET lines == ret.lines
        IN  /\ Len(lines) >= 1
            /\ lines[1].Material = call.target
            /\ lines[1].Level = 0
            /\ \A i \in 2..Len(lines) :
                  /\ lines[i].Level > 0
                  /\ \E j \in 1..(i - 1) :
                        /\ lines[j].Level = lines[i].Level - 1
                        /\ \A k \in (j + 1)..(i - 1) :
                              lines[k].Level >= lines[i].Level
                        /\ \E n \in 1..Len(map[lines[j].Material].Ingredients) :
                              map[lines[j].Material].Ingredients[n][1]
                                = lines[i].Material
            /\ \A j \in 1..Len(lines) :
                  LET ings == map[lines[j].Material].Ingredients
                  IN  ChildMaterials(lines, j, j + 1)
                        = [n \in 1..Len(ings) |-> ings[n][1]]

\* Logs is reached both directly and through Charcoal and has two lines
C25_Witness ==
    /\ IsCalc
    /\ ret.error = NoError
    /\ Len(ret.lines) = 4
    /\ ret.lines[2].Material = CH /\ ret.lines[2].Level = 1
    /\ ret.lines[3].Material = LG /\ ret.lines[3].Level = 2
    /\ ret.lines[4].Material = LG /\ ret.lines[4].Level = 1

\* ------------------------------------------------------------------------
\* C26
\* ------------------------------------------------------------------------
\* the held maxCraftable call went through both loops
Searched ==
    /\ IsMax
    /\ AcyclicFrom(map, call.target)
    /\ FocusAt(1).error = NoError
    /\ FocusAt(1).totalFocus > 0

\* the outcome of the doubling phase of the held call
Doubled == doubling(map, profile, call.target, call.arg, call.mode, 1, 1)

\* the values hi takes before n: the powers of two below n
PowersBelow(n) == { 2 ^ k : k \in 0..30 } \cap 1..(n - 1)

RECURSIVE ShrinksTo(_, _, _)
\* from lo and hi on, every iteration of the binary search picks
\* lo < mid <= hi and leaves hi - lo smaller, and the loop ends with
\* lo = hi = value
ShrinksTo(lo, hi, value) ==
    IF ~(lo < hi) THEN lo = hi /\ lo = value
    ELSE LET n == narrow(map, profile, call.target, call.arg, call.mode,
                         lo, hi)
         IN  /\ n.error = NoError
             /\ lo < n.mid
             /\ n.mid <= hi
             /\ n.lo <= n.hi
             /\ n.hi - n.lo < hi - lo
             /\ ShrinksTo(n.lo, n.hi, value)

\* C26: maxCraftable terminates for every acyclic graph and every budget,
\* however large: the doubling phase stops as soon as the trial cost exceeds
\* the budget or hi exceeds 1e9 (so hi never exceeds 2^30), every iteration
\* of the binary search picks lo < mid <= hi and strictly shrinks hi - lo,
\* and the loop ends with lo = hi, the value returned.
C26_SearchTerminates ==
    (Searched /\ Doubled.error = NoError) =>
        /\ Doubled.hi \in { 2 ^ k : k \in 0..30 }
        /\ \A p \in PowersBelow(Doubled.hi) :
              /\ p <= HardCeiling
              /\ FocusAt(p).totalFocus <= call.arg
        /\ Doubled.hi <= HardCeiling =>
              FocusAt(Doubled.hi).totalFocus > call.arg
        /\ ret.error = NoError =>
              ShrinksTo(0, Doubled.hi, ret.value)

\* a budget beyond the ceiling: the doubling phase stops at hi = 2^30 and
\* the binary search ends there
C26_Witness ==
    /\ Searched
    /\ call.arg \in BeyondCeiling
    /\ Doubled.hi = 2 ^ 30
    /\ ret.error = NoError
    /\ ret.value = 2 ^ 30


\* ---- C27 ---------------------------------------------------------------
\* C27: evaluate terminates on every finite recipe graph, cyclic or not: the
\* visitation stack, as it stands after each push and at the return or the
\* throw, holds pairwise distinct names that form the ingredient path from
\* the target to the node being visited; its depth never exceeds the number
\* of recipes and equals the level of the node's line + 1; and the stack is
\* empty again when evaluate returns successfully.
IsVisitPath(m, t, seq) ==
    /\ NoDuplicates(seq)
    /\ IsPathFrom(m, t, seq)
    /\ \A i \in 1..Len(seq) : seq[i] \in DOMAIN m
    /\ Len(seq) <= Cardinality(DOMAIN m)

C27_StackIsPath ==
    IsCalc =>
        /\ Len(ret.paths) = Len(ret.visited)
        /\ \A i \in 1..Len(ret.paths) :
              /\ IsVisitPath(map, call.target, ret.paths[i])
              /\ Len(ret.paths[i]) = ret.visited[i].Level + 1
              /\ ret.paths[i][Len(ret.paths[i])] = ret.visited[i].Material
        /\ IsVisitPath(map, call.target, ret.stack)
        /\ ret.error = NoError => (ret.stack = << >> /\ ret.paths # << >>)

\* C27 witness: a call on a cyclic graph that went as deep as the store has
\* recipes (at least two) before it met a name of its stack again
C27_Witness ==
    /\ IsCalc
    /\ ret.error = CycleDetected
    /\ Len(ret.stack) >= 2
    /\ Len(ret.stack) = Cardinality(DOMAIN map)
    /\ Len(ret.paths) = Len(ret.stack)


\* ---- C28 ---------------------------------------------------------------
\* the positions of the lines of one material
LinesOf(lines, name) == { i \in 1..Len(lines) : lines[i].Material = name }

\* C28: for a leaf material that occurs exactly once in the lines of a
\* successful evaluate, the row of the leaf checklist agrees with that line:
\* the row's crafts is the line's Crafts and the row's focus the line's
\* FocusUsed, for every effective yield > 0, yields below 1 included.
C28_SingleLeafRowIsLine ==
    (IsRender /\ ret.error = NoError) =>
        \A i \in 1..Len(ret.lines) :
            ( /\ isLeaf(map, ret.lines[i].Material)
              /\ LinesOf(ret.lines, ret.lines[i].Material) = {i}
              /\ RLt(Zero, ret.lines[i].Yield) ) =>
                \E j \in 1..Len(ret.rows) :
                    /\ ret.rows[j].name = ret.lines[i].Material
                    /\ ret.rows[j].crafts = ret.lines[i].Crafts
                    /\ ret.rows[j].focus = ret.lines[i].FocusUsed


\* ---- C29 ---------------------------------------------------------------
IsFindCycle == call.op = "FindCycle"

\* the ingredient edges of the console store; a name is the material the
\* store takes it for, whatever its case
IngredientsOf(recipes, upper) ==
    UNION { { ToUpperInvariant(recipes[i].Ingredients[j]) :
                j \in 1..Len(recipes[i].Ingredients) } :
            i \in { k \in 1..Len(recipes) :
                      ToUpperInvariant(recipes[k].Key) = upper } }

RECURSIVE ReachedIn(_, _, _)
ReachedIn(recipes, S, k) ==
    IF k = 0 THEN S
    ELSE ReachedIn(recipes,
                   S \cup UNION { IngredientsOf(recipes, n) : n \in S },
                   k - 1)

\* the recipe of a key reaches itself through ingredient edges
ReachesItself(recipes, key) ==
    ToUpperInvariant(key)
        \in ReachedIn(recipes,
                      IngredientsOf(recipes, ToUpperInvariant(key)),
                      Cardinality(Spellings))

\* C29: in the console program FindCycle returns null if and only if no
\* recipe of the store can reach itself through ingredient edges; whenever
\* it returns null, CalculateFocus throws no cycle error for any target;
\* whenever it returns a path, consecutive names of the path are linked by
\* ingredient edges and the last name also occurs earlier in the path (names
\* being the materials the store takes them for).
C29_FindCycleIsExact ==
    IsFindCycle =>
        /\ ret.cycle = Null
              <=> \A i \in 1..Len(ret.recipes) :
                      ~ReachesItself(ret.recipes, ret.recipes[i].Key)
        /\ ret.cycle = Null =>
              \A target \in Spellings :
                  CalculateFocus(ret.recipes, target).error # CycleDetected
        /\ ret.cycle # Null =>
              /\ \A i \in 1..(Len(ret.cycle) - 1) :
                    ToUpperInvariant(ret.cycle[i + 1])
                        \in IngredientsOf(ret.recipes,
                                          ToUpperInvariant(ret.cycle[i]))
              /\ \E i \in 1..(Len(ret.cycle) - 1) :
                    ToUpperInvariant(ret.cycle[i])
                        = ToUpperInvariant(ret.cycle[Len(ret.cycle)])

\* C29 witness: a path that leads from a recipe outside the cycle into a
\* cycle of two recipes
C29_Witness ==
    /\ IsFindCycle
    /\ ret.cycle # Null
    /\ Len(ret.cycle) = 4
    /\ ToUpperInvariant(ret.cycle[1]) # ToUpperInvariant(ret.cycle[4])
    /\ ToUpperInvariant(ret.cycle[2]) = ToUpperInvariant(ret.cycle[4])


\* ---- C30 ---------------------------------------------------------------
\* C30: in the browser calculator, after any sequence of Calculate clicks,
\* target selections, quantity edits and mode switches, an Export CSV click
\* exports the lines together with the target, the quantity and the total
\* Focus of the very calculation that produced those lines, and exports
\* nothing while the last Calculate ended in an error.
C30_ExportIsLastCalculation ==
    ui.download # Null =>
        /\ ui.errors = NoError
        /\ ui.download.lines = ui.lastLines
        /\ ui.download.target = ui.produced.target
        /\ ui.download.qty = ui.produced.qty
        /\ ui.download.totalFocus = ui.produced.totalFocus

====
